---- MODULE Spec2Model ----
(***************************************************************************)
(* Model of the fast XML reader `fast_xml` (src/src/index.mts).            *)
(*                                                                         *)
(* Strings are sequences of one-character strings.  Offsets are 0-based,   *)
(* as in the source: the character at offset p of s is s[p + 1].           *)
(* The sticky regular expressions of the source are kept as syntax trees   *)
(* and matched by a backtracking matcher with the priorities of the        *)
(* ECMAScript engine (alternatives left to right, greedy and lazy stars).  *)
(***************************************************************************)
EXTENDS Integers, Sequences, FiniteSets, TLC

(***************************************************************************)
(* JavaScript string primitives                                            *)
(***************************************************************************)

\* The value of a `let` that was never assigned, and of an absent character.
Undefined == <<"undefined">>

Min(a, b) == IF a < b THEN a ELSE b
Max(a, b) == IF a > b THEN a ELSE b

\* String.prototype.slice(a, b): negative offsets count from the end.
Slice(s, a, b) ==
    LET n  == Len(s)
        lo == IF a < 0 THEN Max(n + a, 0) ELSE Min(a, n)
        hi == IF b < 0 THEN Max(n + b, 0) ELSE Min(b, n)
    IN  IF lo >= hi THEN <<>> ELSE SubSeq(s, lo + 1, hi)

\* String.prototype.slice(a): to the end of the string.
SliceFrom(s, a) == Slice(s, a, Len(s))

\* s[i] of the source: a one-character string, or Undefined past the end.
CharAt(s, i) == IF i >= 0 /\ i < Len(s) THEN <<s[i + 1]>> ELSE Undefined

\* String.prototype.at(i): negative offsets count from the end.
At(s, i) == CharAt(s, IF i < 0 THEN Len(s) + i ELSE i)

\* String.prototype.indexOf(c, from) for a one-character needle.
IndexOf(s, c, from) ==
    IF \A i \in from .. Len(s) - 1 : s[i + 1] # c THEN -1
    ELSE CHOOSE i \in from .. Len(s) - 1 :
            /\ s[i + 1] = c
            /\ \A j \in from .. i - 1 : s[j + 1] # c

(***************************************************************************)
(* Regular expressions: syntax trees and the backtracking matcher          *)
(***************************************************************************)

In(S)    == [t |-> "in", c |-> S]        \* [...]  one character of S
NotIn(S) == [t |-> "notin", c |-> S]     \* [^...] one character not in S
Dot      == [t |-> "notin", c |-> {}]    \* . under the `s` flag
Cat(rs)  == [t |-> "cat", a |-> rs]      \* r1 r2 ... rn
Alt(rs)  == [t |-> "alt", a |-> rs]      \* r1 | r2 | ... | rn
Star(r)  == [t |-> "star", r |-> r]      \* r*   greedy
Lazy(r)  == [t |-> "lazy", r |-> r]      \* r*?  lazy
Plus(r)  == Cat(<<r, Star(r)>>)          \* r+
Opt(r)   == Alt(<<r, Cat(<<>>)>>)        \* r?
Str(cs)  == Cat([i \in DOMAIN cs |-> In({cs[i]})])
\* An iteration of a star that consumed nothing is rejected.
Chk(p)   == [t |-> "chk", p |-> p]
Bol      == [t |-> "bol"]                \* ^ without the `m` flag

\* Whether the character c belongs to the character class cls.
Member(c, cls) == IF cls.t = "in" THEN c \in cls.c ELSE c \notin cls.c

IsClass(r) == r.t \in {"in", "notin"}

\* The length of the longest run of characters of the class cls that starts
\* at offset i of s.
Span(cls, s, i) ==
    (CHOOSE j \in i .. Len(s) :
        /\ j = Len(s) \/ ~Member(s[j + 1], cls)
        /\ \A l \in i .. j - 1 : Member(s[l + 1], cls)) - i

\* Run(k, s, i): the offset at which the first successful match (in
\* backtracking order) of the concatenation of the expressions in k ends
\* when started at offset i of s, or -1 when there is none.
\* A star over a single character class gives up its characters one at a
\* time (Greedy), or takes them one at a time (Reluctant).
\* A star that nothing follows cannot fail, so the first match of its body
\* that consumes something is the iteration taken and the star goes on from
\* where that match ends.
RECURSIVE Run(_, _, _)
RECURSIVE RunAlt(_, _, _, _)
RECURSIVE Greedy(_, _, _, _)
RECURSIVE Reluctant(_, _, _, _, _)
Run(k, s, i) ==
    IF k = <<>> THEN i
    ELSE LET h    == Head(k)
             rest == Tail(k)
         IN  CASE IsClass(h) ->
                    IF i < Len(s) /\ Member(s[i + 1], h)
                    THEN Run(rest, s, i + 1) ELSE -1
               [] h.t = "chk" ->
                    IF i > h.p THEN Run(rest, s, i) ELSE -1
               [] h.t = "bol" ->
                    IF i = 0 THEN Run(rest, s, i) ELSE -1
               [] h.t = "cat" -> Run(h.a \o rest, s, i)
               [] h.t = "alt" -> RunAlt(h.a, rest, s, i)
               [] h.t = "star" /\ IsClass(h.r) ->
                    Greedy(rest, s, i, Span(h.r, s, i))
               [] h.t = "lazy" /\ IsClass(h.r) ->
                    Reluctant(rest, s, i, 0, Span(h.r, s, i))
               [] h.t = "star" /\ ~IsClass(h.r) ->
                    LET once == IF rest = <<>> THEN Run(<<h.r>>, s, i) ELSE -1
                        more == Run(<<h.r, Chk(i), h>> \o rest, s, i)
                    IN  IF once > i THEN Run(k, s, once)
                        ELSE IF more # -1 THEN more ELSE Run(rest, s, i)
               [] h.t = "lazy" /\ ~IsClass(h.r) ->
                    LET stop == Run(rest, s, i)
                    IN  IF stop # -1 THEN stop
                        ELSE Run(<<h.r, Chk(i), h>> \o rest, s, i)
RunAlt(alts, rest, s, i) ==
    IF alts = <<>> THEN -1
    ELSE LET first == Run(<<Head(alts)>> \o rest, s, i)
         IN  IF first # -1 THEN first ELSE RunAlt(Tail(alts), rest, s, i)
Greedy(rest, s, i, n) ==
    IF n < 0 THEN -1
    ELSE LET r == Run(rest, s, i + n)
         IN  IF r # -1 THEN r ELSE Greedy(rest, s, i, n - 1)
Reluctant(rest, s, i, n, max) ==
    IF n > max THEN -1
    ELSE LET r == Run(rest, s, i + n)
         IN  IF r # -1 THEN r ELSE Reluctant(rest, s, i, n + 1, max)

\* re.lastIndex = i; re.test(s) for a sticky expression: the new lastIndex,
\* or -1 when test returns false.
Match(re, s, i) == Run(<<re>>, s, i)

(***************************************************************************)
(* The grammars                                                            *)
(***************************************************************************)

WS == {" ", "\t", "\r", "\n"}

\* &[^;]+;
\* Variant of Reference whose name holds neither a quote nor a <.
ReferenceOfName ==
    Cat(<<In({"&"}), Plus(NotIn({";", "\"", "'", "<"})), In({";"})>>)

Reference == Cat(<<In({"&"}), Plus(NotIn({";"})), In({";"})>>)

\* "[^"]*"  and  '[^']*'
DqString == Cat(<<In({"\""}), Star(NotIn({"\""})), In({"\""})>>)
SqString == Cat(<<In({"'"}), Star(NotIn({"'"})), In({"'"})>>)

\* <!-.*?-->  and  <\?.*?\?>
Comment == Cat(<<Str(<<"<", "!", "-">>), Lazy(Dot), Str(<<"-", "-", ">">>)>>)
ProcInst == Cat(<<Str(<<"<", "?">>), Lazy(Dot), Str(<<"?", ">">>)>>)

\* <!(?:"[^"]*"|'[^']*'|<(?:"[^"]*"|'[^']*'|[^>]+)*>|[^<>"']+)*>
Declaration ==
    Cat(<<Str(<<"<", "!">>),
          Star(Alt(<<DqString,
                     SqString,
                     Cat(<<In({"<"}),
                           Star(Alt(<<DqString, SqString, Plus(NotIn({">"}))>>)),
                           In({">"})>>),
                     Plus(NotIn({"<", ">", "\"", "'"}))>>)),
          In({">"})>>)

\* /^(?:<!(...)*>|<!-.*?-->|<\?.*?\?>|[^<]+)*/sy
PROLOG ==
    Cat(<<Bol,
          Star(Alt(<<Declaration, Comment, ProcInst, Plus(NotIn({"<"}))>>))>>)

\* /&[^;]+;|<!\[.*?\]\]>|<!-.*?-->|<\?.*?\?>|<\/?[^/> \t\r\n]+|[^<&]+/sy
PRIMARY ==
    Alt(<<Reference,
          Cat(<<Str(<<"<", "!", "[">>), Lazy(Dot), Str(<<"]", "]", ">">>)>>),
          Comment,
          ProcInst,
          Cat(<<In({"<"}), Opt(In({"/"})), Plus(NotIn({"/", ">"} \cup WS))>>),
          Plus(NotIn({"<", "&"}))>>)

\* /\/?>|[ \t\r\n]+|[^=]+=["']/y
ATTLIST ==
    Alt(<<Cat(<<Opt(In({"/"})), In({">"})>>),
          Plus(In(WS)),
          Cat(<<Plus(NotIn({"="})), In({"="}), In({"\"", "'"})>>)>>)

\* /&[^;]+;|"|[^"&]+/y
DQ_ATTR == Alt(<<Reference, In({"\""}), Plus(NotIn({"\"", "&"}))>>)

\* /&[^;]+;|'|[^'&]+/y
SQ_ATTR == Alt(<<Reference, In({"'"}), Plus(NotIn({"'", "&"}))>>)

\* /&[^;]+;|[^&]+/y
RX_ATTR == Alt(<<Reference, Plus(NotIn({"&"}))>>)

\* The value of `lit` is kept as the name of the expression it refers to.
Grammar(l) ==
    CASE l = "DQ_ATTR" -> DQ_ATTR
      [] l = "SQ_ATTR" -> SQ_ATTR
      [] l = "RX_ATTR" -> RX_ATTR

\* PREDEFINED: the five predefined entities.
PREDEFINED ==
    (<<"l", "t">> :> "<") @@ (<<"g", "t">> :> ">") @@
    (<<"a", "m", "p">> :> "&") @@ (<<"a", "p", "o", "s">> :> "'") @@
    (<<"q", "u", "o", "t">> :> "\"")

(***************************************************************************)
(* Numeric references: parseInt and String.fromCodePoint                   *)
(***************************************************************************)

\* The value of a digit character in radix 16 or less, -1 for a non-digit.
DigitValue(c) ==
    CASE c = "0" -> 0 [] c = "1" -> 1 [] c = "2" -> 2 [] c = "3" -> 3
      [] c = "4" -> 4 [] c = "5" -> 5 [] c = "6" -> 6 [] c = "7" -> 7
      [] c = "8" -> 8 [] c = "9" -> 9
      [] c \in {"a", "A"} -> 10 [] c \in {"b", "B"} -> 11
      [] c \in {"c", "C"} -> 12 [] c \in {"d", "D"} -> 13
      [] c \in {"e", "E"} -> 14 [] c \in {"f", "F"} -> 15
      [] OTHER -> -1

RECURSIVE SkipWhite(_)
SkipWhite(s) == IF s # <<>> /\ s[1] \in WS THEN SkipWhite(Tail(s)) ELSE s

\* The value of the longest prefix of s made of digits of the radix,
\* continuing from the value acc of n digits read so far.
RECURSIVE Digits(_, _, _, _)
Digits(s, radix, acc, n) ==
    IF s # <<>> /\ DigitValue(s[1]) >= 0 /\ DigitValue(s[1]) < radix
    THEN Digits(Tail(s), radix, acc * radix + DigitValue(s[1]), n + 1)
    ELSE [nan |-> n = 0, v |-> acc]

\* parseInt(s, radix), radix 0 standing for the absent argument: leading
\* white space and a sign are skipped, a 0x prefix selects radix 16 (when the
\* radix is absent or 16), and the result is NaN when no digit follows.
ParseInt(s, radix) ==
    LET s1   == SkipWhite(s)
        neg  == s1 # <<>> /\ s1[1] = "-"
        s2   == IF s1 # <<>> /\ s1[1] \in {"+", "-"} THEN Tail(s1) ELSE s1
        hex  == radix \in {0, 16} /\ Len(s2) >= 2
                /\ s2[1] = "0" /\ s2[2] \in {"x", "X"}
        s3   == IF hex THEN SliceFrom(s2, 2) ELSE s2
        r    == IF hex THEN 16 ELSE IF radix = 0 THEN 10 ELSE radix
        d    == Digits(s3, r, 0, 0)
    IN  [nan |-> d.nan, v |-> IF neg THEN 0 - d.v ELSE d.v]

\* String.fromCodePoint(code) as a character of the model: the characters the
\* documents are written with keep their own value, any other code point is
\* named by its number.
FromCodePoint(code) ==
    CASE code = 34 -> "\"" [] code = 38 -> "&" [] code = 39 -> "'"
      [] code = 60 -> "<"  [] code = 62 -> ">" [] code = 116 -> "t"
      [] OTHER -> "U+" \o ToString(code)

(***************************************************************************)
(* The closures of fast_xml over its local state                           *)
(*                                                                         *)
(* st is the record of the locals the closures read and write:             *)
(* src, pos, lit, end, stack, names, text, active.                         *)
(***************************************************************************)

\* Variant of back that leaves the name of the reference on the name stack.
backKeepsName(st) ==
    LET frame == st.stack[Len(st.stack)]
    IN  [st EXCEPT !.stack = SubSeq(st.stack, 1, Len(st.stack) - 1),
                   !.src = frame[1],
                   !.pos = frame[2],
                   !.lit = frame[3],
                   !.end = frame[4]]

\* Variant of back that restores the source and the position only.
backKeepsLit(st) ==
    LET frame == st.stack[Len(st.stack)]
    IN  [st EXCEPT !.names = SubSeq(st.names, 1, Len(st.names) - 1),
                   !.stack = SubSeq(st.stack, 1, Len(st.stack) - 1),
                   !.src = frame[1],
                   !.pos = frame[2]]

\* back(): return to the previous entity expansion stack frame.
back(st) ==
    LET frame == st.stack[Len(st.stack)]
    IN  [st EXCEPT !.names = SubSeq(st.names, 1, Len(st.names) - 1),
                   !.stack = SubSeq(st.stack, 1, Len(st.stack) - 1),
                   !.src = frame[1],
                   !.pos = frame[2],
                   !.lit = frame[3],
                   !.end = frame[4]]

\* names.includes(ref)
Includes(names, ref) == \E i \in DOMAIN names : names[i] = ref

\* Variant of expand that leaves the literal microsyntax and the end delimiter
\* as they are: a quote in a replacement text then ends the attribute value.
expandKeepsLit(ref, st, d) ==
    IF CharAt(ref, 0) = <<"#">>
    THEN LET code == IF CharAt(ref, 1) = <<"x">>
                     THEN ParseInt(SliceFrom(ref, 2), 16)
                     ELSE ParseInt(SliceFrom(ref, 1), 0)
         IN  IF ~code.nan /\ code.v >= 0 /\ code.v < 1114112
             THEN [st EXCEPT !.text = st.text \o <<FromCodePoint(code.v)>>]
             ELSE [st EXCEPT !.active = FALSE]
    ELSE IF ref \in DOMAIN PREDEFINED
    THEN [st EXCEPT !.text = st.text \o <<PREDEFINED[ref]>>]
    ELSE IF ~Includes(st.names, ref) /\ ref \in DOMAIN d
    THEN [st EXCEPT !.names = Append(st.names, ref),
                    !.stack = Append(st.stack, <<st.src, st.pos, st.lit, st.end>>),
                    !.src = d[ref],
                    !.pos = 0]
    ELSE st

\* Variant of expand that deactivates the read at a name without definition.
expandStrict(ref, st, d) ==
    IF CharAt(ref, 0) = <<"#">>
    THEN LET code == IF CharAt(ref, 1) = <<"x">>
                     THEN ParseInt(SliceFrom(ref, 2), 16)
                     ELSE ParseInt(SliceFrom(ref, 1), 0)
         IN  IF ~code.nan /\ code.v >= 0 /\ code.v < 1114112
             THEN [st EXCEPT !.text = st.text \o <<FromCodePoint(code.v)>>]
             ELSE [st EXCEPT !.active = FALSE]
    ELSE IF ref \in DOMAIN PREDEFINED
    THEN [st EXCEPT !.text = st.text \o <<PREDEFINED[ref]>>]
    ELSE IF ~Includes(st.names, ref) /\ ref \in DOMAIN d
    THEN [st EXCEPT !.names = Append(st.names, ref),
                    !.stack = Append(st.stack, <<st.src, st.pos, st.lit, st.end>>),
                    !.src = d[ref],
                    !.pos = 0,
                    !.lit = "RX_ATTR",
                    !.end = <<>>]
    ELSE IF ref \notin DOMAIN d THEN [st EXCEPT !.active = FALSE]
    ELSE st

\* Variant of expand that looks a name up in the table before PREDEFINED.
expandTableFirst(ref, st, d) ==
    IF CharAt(ref, 0) = <<"#">>
    THEN LET code == IF CharAt(ref, 1) = <<"x">>
                     THEN ParseInt(SliceFrom(ref, 2), 16)
                     ELSE ParseInt(SliceFrom(ref, 1), 0)
         IN  IF ~code.nan /\ code.v >= 0 /\ code.v < 1114112
             THEN [st EXCEPT !.text = st.text \o <<FromCodePoint(code.v)>>]
             ELSE [st EXCEPT !.active = FALSE]
    ELSE IF ~Includes(st.names, ref) /\ ref \in DOMAIN d
    THEN [st EXCEPT !.names = Append(st.names, ref),
                    !.stack = Append(st.stack, <<st.src, st.pos, st.lit, st.end>>),
                    !.src = d[ref],
                    !.pos = 0,
                    !.lit = "RX_ATTR",
                    !.end = <<>>]
    ELSE IF ref \in DOMAIN PREDEFINED
    THEN [st EXCEPT !.text = st.text \o <<PREDEFINED[ref]>>]
    ELSE st

\* Variant of expand whose range test accepts 0x110000.
expandWide(ref, st, d) ==
    IF CharAt(ref, 0) = <<"#">>
    THEN LET code == IF CharAt(ref, 1) = <<"x">>
                     THEN ParseInt(SliceFrom(ref, 2), 16)
                     ELSE ParseInt(SliceFrom(ref, 1), 0)
         IN  IF ~code.nan /\ code.v >= 0 /\ code.v <= 1114112
             THEN [st EXCEPT !.text = st.text \o <<FromCodePoint(code.v)>>]
             ELSE [st EXCEPT !.active = FALSE]
    ELSE IF ref \in DOMAIN PREDEFINED
    THEN [st EXCEPT !.text = st.text \o <<PREDEFINED[ref]>>]
    ELSE IF ~Includes(st.names, ref) /\ ref \in DOMAIN d
    THEN [st EXCEPT !.names = Append(st.names, ref),
                    !.stack = Append(st.stack, <<st.src, st.pos, st.lit, st.end>>),
                    !.src = d[ref],
                    !.pos = 0,
                    !.lit = "RX_ATTR",
                    !.end = <<>>]
    ELSE st

\* Variant of expand without the test of the name stack.
expandRepeats(ref, st, d) ==
    IF CharAt(ref, 0) = <<"#">>
    THEN LET code == IF CharAt(ref, 1) = <<"x">>
                     THEN ParseInt(SliceFrom(ref, 2), 16)
                     ELSE ParseInt(SliceFrom(ref, 1), 0)
         IN  IF ~code.nan /\ code.v >= 0 /\ code.v < 1114112
             THEN [st EXCEPT !.text = st.text \o <<FromCodePoint(code.v)>>]
             ELSE [st EXCEPT !.active = FALSE]
    ELSE IF ref \in DOMAIN PREDEFINED
    THEN [st EXCEPT !.text = st.text \o <<PREDEFINED[ref]>>]
    ELSE IF ref \in DOMAIN d
    THEN [st EXCEPT !.names = Append(st.names, ref),
                    !.stack = Append(st.stack, <<st.src, st.pos, st.lit, st.end>>),
                    !.src = d[ref],
                    !.pos = 0,
                    !.lit = "RX_ATTR",
                    !.end = <<>>]
    ELSE st

\* expand(ref): expand a numeric or named reference; d is impl.defs, a
\* function from names to replacement texts (the empty function when absent).
expand(ref, st, d) ==
    IF CharAt(ref, 0) = <<"#">>
    THEN LET code == IF CharAt(ref, 1) = <<"x">>
                     THEN ParseInt(SliceFrom(ref, 2), 16)
                     ELSE ParseInt(SliceFrom(ref, 1), 0)
         IN  IF ~code.nan /\ code.v >= 0 /\ code.v < 1114112
             THEN [st EXCEPT !.text = st.text \o <<FromCodePoint(code.v)>>]
             ELSE [st EXCEPT !.active = FALSE]
    ELSE IF ref \in DOMAIN PREDEFINED
    THEN [st EXCEPT !.text = st.text \o <<PREDEFINED[ref]>>]
    ELSE IF ~Includes(st.names, ref) /\ ref \in DOMAIN d
    THEN [st EXCEPT !.names = Append(st.names, ref),
                    !.stack = Append(st.stack, <<st.src, st.pos, st.lit, st.end>>),
                    !.src = d[ref],
                    !.pos = 0,
                    !.lit = "RX_ATTR",
                    !.end = <<>>]
    ELSE st

(***************************************************************************)
(* Inputs: documents and entity tables                                     *)
(*                                                                         *)
(* Documents and replacement texts are assembled from pieces, so that a    *)
(* property can speak of the constructs a text is made of.                 *)
(***************************************************************************)

TagA      == <<"<", "a", ">">>                                \* <a>
EndA      == <<"<", "/", "a", ">">>                           \* </a>
VoidB     == <<"<", "b", "/", ">">>                           \* <b/>
AttA      == <<"<", "a", " ", "b", "=", "\"">>                \* <a b="
QuoteEnd  == <<"\"", ">">>                                    \* ">
QuoteVoid == <<"\"", "/", ">">>                               \* "/>
TextT     == <<"t">>                                          \* t
Space     == <<" ">>
RefE      == <<"&", "e", ";">>                                \* &e;
RefF      == <<"&", "f", ";">>                                \* &f;
RefLt     == <<"&", "l", "t", ";">>                           \* &lt;
CommentC  == <<"<", "!", "-", "-", "c", "-", "-", ">">>       \* <!--c-->
CDataD    == <<"<", "!", "[", "C", "D", "A", "T", "A", "[", "d", "]", "]", ">">>
ProcP     == <<"<", "?", "p", "?", ">">>                      \* <?p?>
Mixed     == TextT \o CommentC \o CDataD          \* t<!--c--><![CDATA[d]]>
Ignored   == CommentC \o ProcP                     \* <!--c--><?p?>
OpenEnd   == <<"<", "/", "a">>                                \* </a
SqRef     == <<"<", "a", " ", "c", "=", "'", "&", "e", ";", "'", "/", ">">>
                                                              \* <a c='&e;'/>
Quot      == <<"\"">>
Apos      == <<"'">>
BareAmp   == <<"&", "t">>                                     \* &t
OpenA     == <<"<", "a">>                                     \* <a

\* The pieces documents are assembled from.
Items ==
    {TagA, EndA, VoidB, AttA, QuoteEnd, QuoteVoid, TextT, Space, RefE, RefF,
     RefLt, Ignored, Mixed, OpenEnd, SqRef}

\* The number of pieces of the longest document.
MaxItems == 3

RECURSIVE Flatten(_)
Flatten(ss) == IF ss = <<>> THEN <<>> ELSE Head(ss) \o Flatten(Tail(ss))

\* The documents, as the sequences of their pieces.
Documents == UNION {[1 .. n -> Items] : n \in 0 .. MaxItems}

\* No table (impl.defs absent), or a table without entries.
NoDefs == <<>>

\* e and f refer to each other and f to itself; e holds both quotes and a
\* tag:  e = "&f;'<b/>  f = t&e;&f;
CyclicDefs ==
    (<<"e">> :> <<Quot, RefF, Apos, VoidB>>) @@
    (<<"f">> :> <<TextT, RefE, RefF>>)

\* e ends inside an attribute value, at an & that begins no reference; f ends
\* inside an attribute list; lt is a predefined name:
\* e = <a b="&t  f = <a  lt = t
BrokenDefs ==
    (<<"e">> :> <<AttA, BareAmp>>) @@
    (<<"f">> :> <<OpenA>>) @@
    (<<"l", "t">> :> <<TextT>>)

\* Replacement texts made of whole constructs, without a cycle:
\* e = <a>&f;</a>  f = "<b/>"
ReparseDefs ==
    (<<"e">> :> <<TagA, RefF, EndA>>) @@
    (<<"f">> :> <<Quot, VoidB, Quot>>)

\* The entity tables, each replacement text as the sequence of its pieces.
Tables == {NoDefs, CyclicDefs, BrokenDefs, ReparseDefs}

(***************************************************************************)
(* Inputs: documents with one reference                                    *)
(***************************************************************************)

\* &#body;
NumRef(body) == <<"&", "#">> \o body \o <<";">>

\* &name;
NamedRef(name) == <<"&">> \o name \o <<";">>

\* The bodies of the numeric references of the documents, each with the
\* number parseInt reads in it, as ECMAScript defines parseInt (the decimal
\* form when the body does not begin with x, the hexadecimal form after x):
\* leading white space and a sign are accepted, the digits end at the first
\* character that is not a digit of the radix, the decimal form accepts a 0x
\* prefix, and there is no number (NaN) when no digit is read.
Num(n) == [nan |-> FALSE, v |-> n]
NaN == [nan |-> TRUE, v |-> 0]
NumCases ==
    {[body |-> <<"3", "8">>, value |-> Num(38)],
     [body |-> <<"x", "2", "6">>, value |-> Num(38)],
     [body |-> <<"0", "x", "2", "6">>, value |-> Num(38)],
     [body |-> <<" ", "3", "8">>, value |-> Num(38)],
     [body |-> <<"3", "8", "t">>, value |-> Num(38)],
     [body |-> <<"1", "1", "6">>, value |-> Num(116)],
     [body |-> <<"0">>, value |-> Num(0)],
     [body |-> <<"-", "0">>, value |-> Num(0)],
     [body |-> <<"x", "D", "7", "F", "F">>, value |-> Num(55295)],
     [body |-> <<"x", "D", "8", "0", "0">>, value |-> Num(55296)],
     [body |-> <<"5", "5", "2", "9", "6">>, value |-> Num(55296)],
     [body |-> <<"x", "d", "f", "f", "f">>, value |-> Num(57343)],
     [body |-> <<"x", "E", "0", "0", "0">>, value |-> Num(57344)],
     [body |-> <<"x", "1", "0", "F", "F", "F", "F">>, value |-> Num(1114111)],
     [body |-> <<"1", "1", "1", "4", "1", "1", "1">>, value |-> Num(1114111)],
     [body |-> <<"x", "1", "1", "0", "0", "0", "0">>, value |-> Num(1114112)],
     [body |-> <<"1", "1", "1", "4", "1", "1", "2">>, value |-> Num(1114112)],
     [body |-> <<"-", "1">>, value |-> Num(-1)],
     [body |-> <<"x", "-", "2", "6">>, value |-> Num(-38)],
     [body |-> <<>>, value |-> NaN],
     [body |-> <<"x">>, value |-> NaN],
     [body |-> <<"t">>, value |-> NaN],
     [body |-> <<"X", "2", "6">>, value |-> NaN],
     [body |-> <<"x", "g">>, value |-> NaN]}

NumRefs == {NumRef(c.body) : c \in NumCases}

\* The number read in the body of the numeric reference piece p.
NumValue(p) == (CHOOSE c \in NumCases : NumRef(c.body) = p).value

\* The names of the predefined entities and a name that no table defines.
PredefinedNames ==
    {<<"l", "t">>, <<"g", "t">>, <<"a", "m", "p">>, <<"a", "p", "o", "s">>,
     <<"q", "u", "o", "t">>}
PredefinedRefs == {NamedRef(n) : n \in PredefinedNames}
RefG == NamedRef(<<"g">>)                                     \* &g;

\* A table with an entry for each predefined name, for the bodies of two
\* numeric references and for e, and none for g, to which e refers:
\* lt = gt = amp = apos = quot = #38 = #x26 = t  e = &g;t
ShadowDefs ==
    [n \in PredefinedNames \cup {<<"#", "3", "8">>, <<"#", "x", "2", "6">>,
                                  <<"e">>} |->
        IF n = <<"e">> THEN <<RefG, TextT>> ELSE <<TextT>>]

\* One reference between two tags, before text, and one reference in the
\* value of an attribute of a tag that another tag follows:
\* <a>&r;t</a>  and  <a b="&r;"><b/>
OneRefs == NumRefs \cup PredefinedRefs \cup {RefG, RefE}
RefDocuments ==
    {<<TagA, r, TextT, EndA>> : r \in OneRefs}
    \cup {<<AttA, r, QuoteEnd, VoidB>> : r \in OneRefs}
RefTables == {NoDefs, ShadowDefs}

(***************************************************************************)
(* Inputs: documents with markup between an & and the next ;               *)
(***************************************************************************)

RefQuote == <<"&", "\"", "/", ">", ";">>                      \* &"/>;
RefApos  == <<"&", "'", "/", ">", ";">>                       \* &'/>;
RefTag   == <<"&", "<", "b", "/", ">", ";">>                  \* &<b/>;
RefSemi  == <<"&", ";", "t", ";">>                            \* &;t;
AttS     == <<"<", "a", " ", "c", "=", "'">>                  \* <a c='
AposVoid == <<"'", "/", ">">>                                 \* '/>

\* The same two documents, and one with a single-quoted value, around an &
\* that a quote, a tag, or a ; follows; e stands for such a text.
OddRefs == {RefQuote, RefApos, RefTag, RefSemi, RefE}
OddDocuments ==
    {<<TagA, r, TextT, EndA>> : r \in OddRefs}
    \cup {<<AttA, r, QuoteEnd, VoidB>> : r \in OddRefs}
    \cup {<<AttS, r, AposVoid, VoidB>> : r \in OddRefs}
OddDefs == <<"e">> :> <<RefQuote, RefApos, TextT>>
OddTables == {NoDefs, OddDefs}

(***************************************************************************)
(* Inputs: documents that are one tag with attributes                      *)
(***************************************************************************)

\* An attribute with the white space before it: its text, its name and the
\* value it stands for (the content between the quotes, each reference
\* replaced by its character).
Attribute(t, n, v) == [text |-> t, name |-> n, value |-> v]
AttrItems ==
    {Attribute(<<" ", "b", "=", "\"", "t", "\"">>, <<"b">>, <<"t">>),
     Attribute(<<"\n", "c", "=", "'", "t", "'">>, <<"c">>, <<"t">>),
     Attribute(<<" ", "b", "=", "'", "\"", "'">>, <<"b">>, <<"\"">>),
     Attribute(<<"\r", "\n", "\t", "c", "=", "\"", "'", "/", ">", "\"">>,
               <<"c">>, <<"'", "/", ">">>),
     Attribute(<<" ", "d", "=", "\"", "&", "l", "t", ";", "&", "#", "3", "8",
                 ";", "\"">>, <<"d">>, <<"<", "&">>),
     Attribute(<<" ", "d", "=", "'", "&", "a", "p", "o", "s", ";", "t", "'">>,
               <<"d">>, <<"'", "t">>),
     Attribute(<<"\n", "e", "=", "'", "'">>, <<"e">>, <<>>)}

\* The most attributes of a tag.
MaxAttrs == 2

\* The white space before the terminator, and the terminators.
Gaps == {<<>>, <<" ">>, <<"\r", "\n", "\t">>}
Terminators == {<<">">>, <<"/", ">">>}

\* <a, the attributes, white space, > or />: the pieces are <a, the text of
\* each attribute, the gap and the terminator.
AttrDocuments ==
    {<<OpenA>> \o [i \in DOMAIN as |-> as[i].text] \o <<g, t>> :
        as \in UNION {[1 .. n -> AttrItems] : n \in 0 .. MaxAttrs},
        g \in Gaps, t \in Terminators}

\* Tags with three attributes, of which two or three have the same name.
DupItems == {a \in AttrItems : a.value \in {<<"t">>, <<"\"">>}}
DupDocuments ==
    {<<OpenA>> \o [i \in DOMAIN as |-> as[i].text] \o <<<<>>, t>> :
        as \in {f \in [1 .. 3 -> DupItems] :
                  \E i, j \in 1 .. 3 : i # j /\ f[i].name = f[j].name},
        t \in Terminators}

\* The attribute that a piece is the text of.
AttrOf(p) == CHOOSE a \in AttrItems : a.text = p

(***************************************************************************)
(* Inputs: documents with a prolog                                         *)
(***************************************************************************)

Bom        == <<FromCodePoint(65279)>>                     \* U+FEFF
ProcGt     == <<"<", "?", "p", ">", "?", ">">>             \* <?p>?>
CommentGt  == <<"<", "!", "-", "-", ">", "<", "b", "/", ">", "-", "-", ">">>
                                                           \* <!--><b/>-->
CommentSq  == <<"<", "!", "-", "-", "'", "-", "-", ">">>   \* <!--'-->
DeclPlain  == <<"<", "!", "D", ">">>                       \* <!D>
DeclDq     == <<"<", "!", "D", " ", "\"", ">", "\"", ">">> \* <!D ">">
DeclSq     == <<"<", "!", "D", " ", "'", ">", "'", ">">>   \* <!D '>'>
DeclNested == <<"<", "!", "D", "<", "!", "E", "\"", ">", "\"", ">", ">">>
                                                           \* <!D<!E">">>

\* What a prolog is made of: the byte order mark, white space, comments,
\* processing instructions and declarations.
PrologItems ==
    {Bom, Space, CommentC, CommentGt, CommentSq, ProcP, ProcGt, DeclPlain,
     DeclDq, DeclSq, DeclNested}

\* The most pieces of a prolog.
MaxProlog == 2

\* What follows the prolog:  <b/>  and  <a>'></a>
Bodies == {<<VoidB>>, <<TagA, Apos, <<">">>, EndA>>}

\* The documents with a prolog.
PrologDocuments ==
    {pro \o body :
        pro \in UNION {[1 .. k -> PrologItems] : k \in 0 .. MaxProlog},
        body \in Bodies}

\* The name a reference piece refers to: &name; without & and ;
RefName(p) == Slice(p, 1, -1)

\* The table has an entry for the reference piece p.
Defined(p, tab) == p \in {RefE, RefF} /\ RefName(p) \in DOMAIN tab

\* No earlier read.
NoRun == [parts |-> <<>>, at |-> 0, hooks |-> <<>>]

(***************************************************************************)
(* State                                                                   *)
(***************************************************************************)

VARIABLES
    parts,   \* the pieces of the document
    table,   \* the pieces of the replacement texts of impl.defs
    first,   \* the earlier read of the document with a reference: its
             \* pieces, the place of the reference and the hook calls made
    src,     \* the active source
    pos,     \* tokenizer position
    lit,     \* literal microsyntax
    end,     \* attribute end delimiter
    stack,   \* state snapshots stack
    names,   \* pending reference names
    owner,   \* for each snapshot of the stack, the loop whose expand call
             \* pushed it
    text,    \* tag or attribute text buffer
    active,  \* loop condition
    found,   \* result of the last test() of a sticky expression
    tok,     \* the token just read
    tag,     \* name of the tag whose attribute list is being read
    attrs,   \* its attribute map: pairs <<name, value>> in insertion order
    attr,    \* name of the attribute whose value is being read
    pc,      \* control position
    hooks,   \* the hook calls made so far
    lastIndex, \* the lastIndex of each RegExp object of the module
    peer     \* the variables of a second read, while this one runs

vars == <<parts, table, first, src, pos, lit, end, stack, names, owner, text,
          active, found, tok, tag, attrs, attr, pc, hooks, lastIndex, peer>>

\* Control positions: before the prolog scan; awaiting the head hook; at the
\* head of the top-level, attribute list and literal loops (the loop condition
\* and a test are due);
\* after the test of each loop (the token is dispatched); returned; thrown.
Positions ==
    {"start", "head", "top", "top_tok", "attlist", "attlist_tok",
     "value", "value_tok", "done", "thrown"}

\* The `src` argument of the call.
doc == Flatten(parts)

\* impl.defs: a map from names to replacement texts.
defs == [n \in DOMAIN table |-> Flatten(table[n])]

\* The arguments of the call and the record of the earlier call, which the
\* read leaves alone.
inputs == <<parts, table, first>>

St == [src |-> src, pos |-> pos, lit |-> lit, end |-> end, stack |-> stack,
       names |-> names, text |-> text, active |-> active]

\* The loop a step belongs to: the literal loop, or the top-level loop (the
\* attribute list loop calls neither expand nor back).
Loop == IF pc \in {"value", "value_tok"} THEN "value" ELSE "top"

\* The assignments of a step to the reader's variables; owner follows the
\* stack: a name for a snapshot pushed, one less for a snapshot popped.
Assign(st) ==
    /\ src' = st.src
    /\ pos' = st.pos
    /\ lit' = st.lit
    /\ end' = st.end
    /\ stack' = st.stack
    /\ names' = st.names
    /\ owner' = IF Len(st.stack) > Len(stack) THEN Append(owner, Loop)
                ELSE SubSeq(owner, 1, Len(st.stack))
    /\ text' = st.text
    /\ active' = st.active

HeadHook(s) == [hook |-> "head", arg |-> s, attrs |-> <<>>]
OtagHook(t, m) == [hook |-> "otag", arg |-> t, attrs |-> m]
CtagHook(t) == [hook |-> "ctag", arg |-> t, attrs |-> <<>>]
TextHook(s) == [hook |-> "text", arg |-> s, attrs |-> <<>>]

\* Variant of Flush without the test of the buffer.
FlushAlways(h, t) == Append(h, TextHook(t))

\* if (text) impl.text?.(text)
Flush(h, t) == IF t # <<>> THEN Append(h, TextHook(t)) ELSE h

\* Variant of MapSet in which a key set again moves to the end.
MapSetMoves(m, k, v) ==
    Append(SelectSeq(m, LAMBDA e : e[1] # k), <<k, v>>)

\* attrs.set(k, v): an existing key keeps its place.
MapSet(m, k, v) ==
    IF \E i \in DOMAIN m : m[i][1] = k
    THEN [i \in DOMAIN m |-> IF m[i][1] = k THEN <<k, v>> ELSE m[i]]
    ELSE Append(m, <<k, v>>)

\* No second read.
NoRead == [pc |-> "none"]

\* The RegExp objects of the module, shared by all reads.
RegExps == {"PROLOG", "PRIMARY", "ATTLIST", "DQ_ATTR", "SQ_ATTR", "RX_ATTR"}

\* The module has just been evaluated: every lastIndex is 0.
Loaded == lastIndex = [n \in RegExps |-> 0]

\* re.test(s) for the sticky expression re, named n, under the lastIndex
\* values li: the match is tried at li[n]; the result of the test and the
\* new lastIndex values, where li[n] is the end of the match, or 0 when the
\* test fails.
Test(n, re, s, li) ==
    CHOOSE t \in {[ok |-> m # -1, li |-> [li EXCEPT ![n] = Max(m, 0)]] :
                    m \in {Match(re, s, li[n])}} : TRUE

\* re.lastIndex = pos; if (re.test(src)) tok = src.slice(pos, (pos =
\* re.lastIndex)), for the expression re named n.
Lex(n, re) ==
    \E t \in {Test(n, re, src, [lastIndex EXCEPT ![n] = pos])} :
        /\ lastIndex' = t.li
        /\ found' = t.ok
        /\ tok' = IF found' THEN Slice(src, pos, lastIndex'[n]) ELSE tok
        /\ pos' = IF found' THEN lastIndex'[n] ELSE pos

\* The state at the entry of fast_xml(src, impl).
Entry ==
    /\ first = NoRun
    /\ src = doc
    /\ pos = 0
    /\ lit = "undefined"
    /\ end = Undefined
    /\ stack = <<>>
    /\ names = <<>>
    /\ owner = <<>>
    /\ text = <<>>
    /\ active = TRUE
    /\ found = FALSE
    /\ tok = <<>>
    /\ tag = <<>>
    /\ attrs = <<>>
    /\ attr = <<>>
    /\ pc = "start"
    /\ hooks = <<>>

\* The table is consulted for references only (expand), so a document
\* without references is read under the absent table alone.
Init ==
    /\ \/ /\ parts \in Documents
          /\ table \in Tables
          /\ (\A i \in DOMAIN parts : parts[i] \notin {RefE, RefF, RefLt, SqRef})
                => table = NoDefs
       \/ /\ parts \in RefDocuments
          /\ table \in RefTables
       \/ /\ parts \in AttrDocuments
          /\ table = NoDefs
       \/ /\ parts \in OddDocuments
          /\ table \in OddTables
       \/ /\ parts \in DupDocuments
          /\ table = NoDefs
    /\ Entry
    /\ Loaded
    /\ peer = NoRead

\* The read of a document with a prolog, without a table.
InitProlog ==
    /\ parts \in PrologDocuments
    /\ table = NoDefs
    /\ Entry
    /\ Loaded
    /\ peer = NoRead

(***************************************************************************)
(* The prolog                                                              *)
(***************************************************************************)

\* Variant of Prolog in which the head hook is given the slice taken before
\* pos is assigned.
PrologStale ==
    /\ pc = "start"
    /\ lastIndex' = Test("PROLOG", PROLOG, src,
                         [lastIndex EXCEPT !["PROLOG"] = 0]).li
    /\ pos' = lastIndex'["PROLOG"]
    /\ hooks' = Append(hooks, HeadHook(Slice(src, 0, pos)))
    /\ pc' = "head"
    /\ UNCHANGED <<inputs, peer, src, lit, end, stack, names, owner, text,
                   active, found, tok, tag, attrs, attr>>

\* Variant of Prolog without the assignment PROLOG.lastIndex = 0.
PrologNoReset ==
    /\ pc = "start"
    /\ lastIndex' = Test("PROLOG", PROLOG, src, lastIndex).li
    /\ pos' = lastIndex'["PROLOG"]
    /\ hooks' = Append(hooks, HeadHook(Slice(src, 0, pos')))
    /\ pc' = "head"
    /\ UNCHANGED <<inputs, peer, src, lit, end, stack, names, owner, text,
                   active, found, tok, tag, attrs, attr>>

\* PROLOG.lastIndex = 0; PROLOG.test(src); pos = PROLOG.lastIndex;
\* then impl.head?.(src.slice(0, pos)) is called and its result awaited.
Prolog ==
    /\ pc = "start"
    /\ lastIndex' = Test("PROLOG", PROLOG, src,
                         [lastIndex EXCEPT !["PROLOG"] = 0]).li
    /\ pos' = lastIndex'["PROLOG"]
    /\ hooks' = Append(hooks, HeadHook(Slice(src, 0, pos')))
    /\ pc' = "head"
    /\ UNCHANGED <<inputs, peer, src, lit, end, stack, names, owner, text,
                   active, found, tok, tag, attrs, attr>>

\* The promise returned by the head hook settles and the read resumes.
HeadSettled ==
    /\ pc = "head"
    /\ pc' = "top"
    /\ UNCHANGED <<inputs, lastIndex, peer, src, pos, lit, end, stack, names,
                   owner, text, active, found, tok, tag, attrs, attr, hooks>>

(***************************************************************************)
(* The top-level loop                                                      *)
(***************************************************************************)

\* Variant of TopTest in which the top-level loop does not test active.
TopTestAnyway ==
    /\ pc = "top"
    /\ Lex("PRIMARY", PRIMARY)
    /\ pc' = "top_tok"
    /\ UNCHANGED <<inputs, peer, src, lit, end, stack, names, owner, text,
                   active, tag, attrs, attr, hooks>>

\* while (active): PRIMARY.lastIndex = pos; PRIMARY.test(src)
TopTest ==
    /\ pc = "top"
    /\ active
    /\ Lex("PRIMARY", PRIMARY)
    /\ pc' = "top_tok"
    /\ UNCHANGED <<inputs, peer, src, lit, end, stack, names, owner, text,
                   active, tag, attrs, attr, hooks>>

IsEndTag(t) == CharAt(t, 0) = <<"<">> /\ CharAt(t, 1) = <<"/">>
IsCData(t) ==
    /\ CharAt(t, 0) = <<"<">>
    /\ CharAt(t, 1) = <<"!">>
    /\ CharAt(t, 2) = <<"[">>
IsStartTag(t) ==
    /\ CharAt(t, 0) = <<"<">>
    /\ ~IsEndTag(t)
    /\ ~IsCData(t)
    /\ CharAt(t, 1) # <<"!">>
    /\ CharAt(t, 1) # <<"?">>
IsIgnored(t) ==
    /\ CharAt(t, 0) = <<"<">>
    /\ ~IsEndTag(t)
    /\ ~IsCData(t)
    /\ ~IsStartTag(t)
IsRef(t) == CharAt(t, 0) = <<"&">>

\* Variant of TopEndTag in which the ctag hook is given tok.slice(1), the
\* name with its slash.
TopEndTagKeepsSlash ==
    /\ pc = "top_tok"
    /\ found
    /\ IsEndTag(tok)
    /\ LET angle == IndexOf(src, ">", pos)
           flushed == Flush(hooks, text)
       IN  IF angle < 0
           THEN /\ Assign([St EXCEPT !.text = <<>>, !.active = FALSE])
                /\ hooks' = flushed
                /\ pc' = "top"
           ELSE /\ Assign([St EXCEPT !.pos = angle + 1, !.text = <<>>])
                /\ hooks' = Append(flushed, CtagHook(SliceFrom(tok, 1)))
                /\ pc' = "top"
    /\ UNCHANGED <<inputs, lastIndex, peer, found, tok, tag, attrs, attr>>

\* Variant of TopEndTag that looks for the right angle before it flushes
\* the text buffer, and flushes when there is one.
TopEndTagDrops ==
    /\ pc = "top_tok"
    /\ found
    /\ IsEndTag(tok)
    /\ LET angle == IndexOf(src, ">", pos)
       IN  IF angle < 0
           THEN /\ Assign([St EXCEPT !.text = <<>>, !.active = FALSE])
                /\ hooks' = hooks
                /\ pc' = "top"
           ELSE /\ Assign([St EXCEPT !.pos = angle + 1, !.text = <<>>])
                /\ hooks' = Append(Flush(hooks, text),
                                   CtagHook(SliceFrom(tok, 2)))
                /\ pc' = "top"
    /\ UNCHANGED <<inputs, lastIndex, peer, found, tok, tag, attrs, attr>>

\* </{name}...>: flush the text, then look for the right angle.
TopEndTag ==
    /\ pc = "top_tok"
    /\ found
    /\ IsEndTag(tok)
    /\ LET angle == IndexOf(src, ">", pos)
           flushed == Flush(hooks, text)
       IN  IF angle < 0
           THEN /\ Assign([St EXCEPT !.text = <<>>, !.active = FALSE])
                /\ hooks' = flushed
                /\ pc' = "top"
           ELSE /\ Assign([St EXCEPT !.pos = angle + 1, !.text = <<>>])
                /\ hooks' = Append(flushed, CtagHook(SliceFrom(tok, 2)))
                /\ pc' = "top"
    /\ UNCHANGED <<inputs, lastIndex, peer, found, tok, tag, attrs, attr>>

\* <![CDATA[...]]>: text += tok.slice(9, -3)
TopCData ==
    /\ pc = "top_tok"
    /\ found
    /\ IsCData(tok)
    /\ Assign([St EXCEPT !.text = text \o Slice(tok, 9, -3)])
    /\ pc' = "top"
    /\ UNCHANGED <<inputs, lastIndex, peer, found, tok, tag, attrs, attr,
                   hooks>>

\* <{name}: flush the text, capture the name, create the attribute map and
\* enter the attribute list loop.
TopStartTag ==
    /\ pc = "top_tok"
    /\ found
    /\ IsStartTag(tok)
    /\ Assign([St EXCEPT !.text = <<>>])
    /\ hooks' = Flush(hooks, text)
    /\ tag' = SliceFrom(tok, 1)
    /\ attrs' = <<>>
    /\ pc' = "attlist"
    /\ UNCHANGED <<inputs, lastIndex, peer, found, tok, attr>>

\* Variant of TopIgnored in which comments and processing instructions are
\* buffered as text.
TopIgnoredKeeps ==
    /\ pc = "top_tok"
    /\ found
    /\ IsIgnored(tok)
    /\ Assign([St EXCEPT !.text = text \o tok])
    /\ pc' = "top"
    /\ UNCHANGED <<inputs, lastIndex, peer, found, tok, tag, attrs, attr,
                   hooks>>

\* <!--...-->, <?...?> and names that begin with ! or ?: nothing is done.
TopIgnored ==
    /\ pc = "top_tok"
    /\ found
    /\ IsIgnored(tok)
    /\ pc' = "top"
    /\ UNCHANGED <<inputs, lastIndex, peer, src, pos, lit, end, stack, names,
                   owner, text, active, found, tok, tag, attrs, attr, hooks>>

\* Variant of TopRef in which a top-level reference is dropped instead of
\* being expanded.
TopRefSkips ==
    /\ pc = "top_tok"
    /\ found
    /\ IsRef(tok)
    /\ pc' = "top"
    /\ UNCHANGED <<inputs, lastIndex, peer, src, pos, lit, end, stack, names,
                   owner, text, active, found, tok, tag, attrs, attr, hooks>>

\* &...;: expand(tok.slice(1, -1))
TopRef ==
    /\ pc = "top_tok"
    /\ found
    /\ IsRef(tok)
    /\ Assign(expand(Slice(tok, 1, -1), St, defs))
    /\ pc' = "top"
    /\ UNCHANGED <<inputs, lastIndex, peer, found, tok, tag, attrs, attr,
                   hooks>>

\* Plain text chunk: text += tok
TopText ==
    /\ pc = "top_tok"
    /\ found
    /\ CharAt(tok, 0) \notin {<<"<">>, <<"&">>}
    /\ Assign([St EXCEPT !.text = text \o tok])
    /\ pc' = "top"
    /\ UNCHANGED <<inputs, lastIndex, peer, found, tok, tag, attrs, attr,
                   hooks>>

\* Variant of TopBack that ends the read at the end of a replacement text.
TopBackAborts ==
    /\ pc = "top_tok"
    /\ ~found
    /\ Len(stack) # 0
    /\ Assign([back(St) EXCEPT !.active = FALSE])
    /\ pc' = "top"
    /\ UNCHANGED <<inputs, lastIndex, peer, found, tok, tag, attrs, attr,
                   hooks>>

\* No match in the top-level mode and the stack is non-empty: back().
TopBack ==
    /\ pc = "top_tok"
    /\ ~found
    /\ Len(stack) # 0
    /\ Assign(back(St))
    /\ pc' = "top"
    /\ UNCHANGED <<inputs, lastIndex, peer, found, tok, tag, attrs, attr,
                   hooks>>

\* Variant of TopAbort in which the text buffer is flushed at the end of the
\* document.
TopAbortFlushes ==
    /\ pc = "top_tok"
    /\ ~found
    /\ Len(stack) = 0
    /\ Assign([St EXCEPT !.active = FALSE])
    /\ hooks' = Flush(hooks, text)
    /\ pc' = "top"
    /\ UNCHANGED <<inputs, lastIndex, peer, found, tok, tag, attrs, attr>>

\* No match and the stack is empty: EOF or error, active = false.
TopAbort ==
    /\ pc = "top_tok"
    /\ ~found
    /\ Len(stack) = 0
    /\ Assign([St EXCEPT !.active = FALSE])
    /\ pc' = "top"
    /\ UNCHANGED <<inputs, lastIndex, peer, found, tok, tag, attrs, attr,
                   hooks>>

\* while (active) of the top-level loop fails: fast_xml returns.
TopExit ==
    /\ pc = "top"
    /\ ~active
    /\ pc' = "done"
    /\ UNCHANGED <<inputs, lastIndex, peer, src, pos, lit, end, stack, names,
                   owner, text, active, found, tok, tag, attrs, attr, hooks>>

(***************************************************************************)
(* The attribute list loop                                                 *)
(***************************************************************************)

\* while (active): ATTLIST.lastIndex = pos; ATTLIST.test(src)
AttTest ==
    /\ pc = "attlist"
    /\ active
    /\ Lex("ATTLIST", ATTLIST)
    /\ pc' = "attlist_tok"
    /\ UNCHANGED <<inputs, peer, src, lit, end, stack, names, owner, text,
                   active, tag, attrs, attr, hooks>>

IsAttEnd(t) == t = <<"/", ">">> \/ t = <<">">>
IsAttHead(t) == ~IsAttEnd(t) /\ At(t, -2) = <<"=">>

\* Variant of AttEnd in which the ctag hook of the void tag is left out.
AttEndNoCtag ==
    /\ pc = "attlist_tok"
    /\ found
    /\ IsAttEnd(tok)
    /\ hooks' = Append(hooks, OtagHook(tag, attrs))
    /\ pc' = "top"
    /\ UNCHANGED <<inputs, lastIndex, peer, src, pos, lit, end, stack, names,
                   owner, text, active, found, tok, tag, attrs, attr>>

\* /> or >: otag, then ctag for the void tag, and back to the top level.
AttEnd ==
    /\ pc = "attlist_tok"
    /\ found
    /\ IsAttEnd(tok)
    /\ hooks' = IF tok # <<">">>
                THEN hooks \o <<OtagHook(tag, attrs), CtagHook(tag)>>
                ELSE Append(hooks, OtagHook(tag, attrs))
    /\ pc' = "top"
    /\ UNCHANGED <<inputs, lastIndex, peer, src, pos, lit, end, stack, names,
                   owner, text, active, found, tok, tag, attrs, attr>>

\* Variant of AttHead that selects DQ_ATTR for both delimiters.
AttHeadDq ==
    /\ pc = "attlist_tok"
    /\ found
    /\ IsAttHead(tok)
    /\ attr' = Slice(tok, 0, -2)
    /\ Assign([St EXCEPT !.end = At(tok, -1), !.lit = "DQ_ATTR"])
    /\ pc' = "value"
    /\ UNCHANGED <<inputs, lastIndex, peer, found, tok, tag, attrs, hooks>>

\* {name}=" or {name}=': capture the name, select the delimiter and the
\* literal microsyntax, and enter the literal loop.
AttHead ==
    /\ pc = "attlist_tok"
    /\ found
    /\ IsAttHead(tok)
    /\ attr' = Slice(tok, 0, -2)
    /\ Assign([St EXCEPT !.end = At(tok, -1),
                         !.lit = IF At(tok, -1) = <<"\"">>
                                 THEN "DQ_ATTR" ELSE "SQ_ATTR"])
    /\ pc' = "value"
    /\ UNCHANGED <<inputs, lastIndex, peer, found, tok, tag, attrs, hooks>>

\* White space: nothing is done.
AttSpace ==
    /\ pc = "attlist_tok"
    /\ found
    /\ ~IsAttEnd(tok)
    /\ ~IsAttHead(tok)
    /\ pc' = "attlist"
    /\ UNCHANGED <<inputs, lastIndex, peer, src, pos, lit, end, stack, names,
                   owner, text, active, found, tok, tag, attrs, attr, hooks>>

\* Variant of AttAbort that goes back to the previous snapshot when there
\* is one, as the other two loops do.
AttAbortPops ==
    /\ pc = "attlist_tok"
    /\ ~found
    /\ Assign(IF Len(stack) # 0 THEN back(St)
              ELSE [St EXCEPT !.active = FALSE])
    /\ pc' = "attlist"
    /\ UNCHANGED <<inputs, lastIndex, peer, found, tok, tag, attrs, attr,
                   hooks>>

\* No match: end of replacement or EOF, active = false.
AttAbort ==
    /\ pc = "attlist_tok"
    /\ ~found
    /\ Assign([St EXCEPT !.active = FALSE])
    /\ pc' = "attlist"
    /\ UNCHANGED <<inputs, lastIndex, peer, found, tok, tag, attrs, attr,
                   hooks>>

\* while (active) of the attribute list loop fails: the top-level loop goes
\* on with its own test.
AttExit ==
    /\ pc = "attlist"
    /\ ~active
    /\ pc' = "top"
    /\ UNCHANGED <<inputs, lastIndex, peer, src, pos, lit, end, stack, names,
                   owner, text, active, found, tok, tag, attrs, attr, hooks>>

(***************************************************************************)
(* The literal (attribute value) loop                                      *)
(***************************************************************************)

\* while (active): lit.lastIndex = pos; lit.test(src)
LitTest ==
    /\ pc = "value"
    /\ active
    /\ lit # "undefined"
    /\ Lex(lit, Grammar(lit))
    /\ pc' = "value_tok"
    /\ UNCHANGED <<inputs, peer, src, lit, end, stack, names, owner, text,
                   active, tag, attrs, attr, hooks>>

\* `lit.lastIndex = pos` with lit never assigned: a TypeError is thrown, no
\* handler catches it and the promise of fast_xml rejects.
LitThrow ==
    /\ pc = "value"
    /\ active
    /\ lit = "undefined"
    /\ pc' = "thrown"
    /\ UNCHANGED <<inputs, lastIndex, peer, src, pos, lit, end, stack, names,
                   owner, text, active, found, tok, tag, attrs, attr, hooks>>

\* Variant of LitEnd that leaves the value in the text buffer.
LitEndKeepsText ==
    /\ pc = "value_tok"
    /\ found
    /\ tok = end
    /\ attrs' = MapSet(attrs, attr, text)
    /\ Assign(St)
    /\ pc' = "attlist"
    /\ UNCHANGED <<inputs, lastIndex, peer, found, tok, tag, attr, hooks>>

\* tok === end: write the attribute value, reset the text buffer and go back
\* to the attribute list.
LitEnd ==
    /\ pc = "value_tok"
    /\ found
    /\ tok = end
    /\ attrs' = MapSet(attrs, attr, text)
    /\ Assign([St EXCEPT !.text = <<>>])
    /\ pc' = "attlist"
    /\ UNCHANGED <<inputs, lastIndex, peer, found, tok, tag, attr, hooks>>

\* &...;: expand(tok.slice(1, -1))
LitRef ==
    /\ pc = "value_tok"
    /\ found
    /\ tok # end
    /\ IsRef(tok)
    /\ Assign(expand(Slice(tok, 1, -1), St, defs))
    /\ pc' = "value"
    /\ UNCHANGED <<inputs, lastIndex, peer, found, tok, tag, attrs, attr,
                   hooks>>

\* Plain text chunk: text += tok
LitText ==
    /\ pc = "value_tok"
    /\ found
    /\ tok # end
    /\ ~IsRef(tok)
    /\ Assign([St EXCEPT !.text = text \o tok])
    /\ pc' = "value"
    /\ UNCHANGED <<inputs, lastIndex, peer, found, tok, tag, attrs, attr,
                   hooks>>

\* No match in the literal mode and the stack is non-empty: back().
LitBack ==
    /\ pc = "value_tok"
    /\ ~found
    /\ Len(stack) # 0
    /\ Assign(back(St))
    /\ pc' = "value"
    /\ UNCHANGED <<inputs, lastIndex, peer, found, tok, tag, attrs, attr,
                   hooks>>

\* No match and the stack is empty: EOF or error, active = false.
LitAbort ==
    /\ pc = "value_tok"
    /\ ~found
    /\ Len(stack) = 0
    /\ Assign([St EXCEPT !.active = FALSE])
    /\ pc' = "value"
    /\ UNCHANGED <<inputs, lastIndex, peer, found, tok, tag, attrs, attr,
                   hooks>>

\* while (active) of the literal loop fails: the attribute list loop goes on
\* with its own test.
LitExit ==
    /\ pc = "value"
    /\ ~active
    /\ pc' = "attlist"
    /\ UNCHANGED <<inputs, lastIndex, peer, src, pos, lit, end, stack, names,
                   owner, text, active, found, tok, tag, attrs, attr, hooks>>

(***************************************************************************)
(* The specification                                                       *)
(***************************************************************************)

Next ==
    \/ Prolog
    \/ HeadSettled
    \/ TopTest
    \/ TopEndTag
    \/ TopCData
    \/ TopStartTag
    \/ TopIgnored
    \/ TopRef
    \/ TopText
    \/ TopBack
    \/ TopAbort
    \/ TopExit
    \/ AttTest
    \/ AttEnd
    \/ AttHead
    \/ AttSpace
    \/ AttAbort
    \/ AttExit
    \/ LitTest
    \/ LitThrow
    \/ LitEnd
    \/ LitRef
    \/ LitText
    \/ LitBack
    \/ LitAbort
    \/ LitExit

Spec == Init /\ [][Next]_vars

\* The reads of the documents with a prolog, up to the first token after the
\* prolog: the scan of the prolog, the call of head and the first test of the
\* top-level loop.
NextProlog ==
    \/ Prolog
    \/ HeadSettled
    \/ TopTest

SpecProlog == InitProlog /\ [][NextProlog]_vars

\* The read is one task that runs whenever it can: a step that is enabled is
\* eventually taken.
FairSpec == Spec /\ WF_vars(Next)

(***************************************************************************)
(* Two reads: a document with a reference, then the document with the      *)
(* replacement text written in place of the reference                      *)
(***************************************************************************)

\* The read has returned, or an exception has left the function.
Ended == pc \in {"done", "thrown"}

\* The pieces ps with the piece at place i replaced by the pieces r.
Inline(ps, i, r) == SubSeq(ps, 1, i - 1) \o r \o SubSeq(ps, i + 1, Len(ps))

\* ps is a sequence of whole constructs: tags with their attribute lists and
\* values complete, references, comments, processing instructions, CDATA
\* sections and text; inValue tells that an attribute value is open.
RECURSIVE Regular(_, _)
Regular(ps, inValue) ==
    IF ps = <<>> THEN ~inValue
    ELSE LET p == Head(ps)
         IN  IF inValue
             THEN \/ /\ p \in {TextT, Space, RefLt, Apos, RefE, RefF}
                     /\ Regular(Tail(ps), TRUE)
                  \/ p \in {QuoteEnd, QuoteVoid} /\ Regular(Tail(ps), FALSE)
             ELSE \/ /\ p \in {TextT, Space, Ignored, Mixed,
                                RefLt, Quot, Apos, RefE, RefF, TagA, EndA, VoidB,
                                SqRef}
                     /\ Regular(Tail(ps), FALSE)
                  \/ p = AttA /\ Regular(Tail(ps), TRUE)

\* The piece at place i of ps stands at the top level of the document: after
\* whole constructs, one of them a tag.
TopLevel(ps, i) ==
    LET before == SubSeq(ps, 1, i - 1)
    IN  /\ Regular(before, FALSE)
        /\ \E j \in DOMAIN before :
              before[j] \in {TagA, EndA, VoidB, AttA, SqRef}

\* Once the read of a document has ended, fast_xml is called again, with the
\* same backend, on the document in which one top-level reference to a
\* defined entity is replaced by the replacement text of the entity.
Restart ==
    /\ Ended
    /\ first = NoRun
    /\ \E i \in DOMAIN parts :
          /\ Defined(parts[i], table)
          /\ TopLevel(parts, i)
          /\ first' = [parts |-> parts, at |-> i, hooks |-> hooks]
          /\ parts' = Inline(parts, i, table[RefName(parts[i])])
    /\ src' = Flatten(parts')
    /\ pos' = 0
    /\ lit' = "undefined"
    /\ end' = Undefined
    /\ stack' = <<>>
    /\ names' = <<>>
    /\ owner' = <<>>
    /\ text' = <<>>
    /\ active' = TRUE
    /\ found' = FALSE
    /\ tok' = <<>>
    /\ tag' = <<>>
    /\ attrs' = <<>>
    /\ attr' = <<>>
    /\ pc' = "start"
    /\ hooks' = <<>>
    /\ UNCHANGED <<table, lastIndex, peer>>

NextPair ==
    \/ Next
    \/ Restart

SpecPair == Init /\ [][NextPair]_vars

(***************************************************************************)
(* Two reads                                                               *)
(***************************************************************************)

\* The variables of the read that runs.
Running ==
    [parts |-> parts, src |-> src, pos |-> pos, lit |-> lit, end |-> end,
     stack |-> stack, names |-> names, owner |-> owner, text |-> text,
     active |-> active, found |-> found, tok |-> tok, tag |-> tag,
     attrs |-> attrs, attr |-> attr, pc |-> pc, hooks |-> hooks]

\* A call fast_xml(src, impl) that has not run yet, src made of the pieces
\* ps: the values of Entry.
Fresh(ps) ==
    [parts |-> ps, src |-> Flatten(ps), pos |-> 0, lit |-> "undefined",
     end |-> Undefined, stack |-> <<>>, names |-> <<>>, owner |-> <<>>,
     text |-> <<>>, active |-> TRUE, found |-> FALSE, tok |-> <<>>,
     tag |-> <<>>, attrs |-> <<>>, attr |-> <<>>, pc |-> "start",
     hooks |-> <<>>]

\* The read r runs.
Resume(r) ==
    /\ parts' = r.parts
    /\ src' = r.src
    /\ pos' = r.pos
    /\ lit' = r.lit
    /\ end' = r.end
    /\ stack' = r.stack
    /\ names' = r.names
    /\ owner' = r.owner
    /\ text' = r.text
    /\ active' = r.active
    /\ found' = r.found
    /\ tok' = r.tok
    /\ tag' = r.tag
    /\ attrs' = r.attrs
    /\ attr' = r.attr
    /\ pc' = r.pc
    /\ hooks' = r.hooks

\* The documents of the two reads: a prolog, tags, attributes, text and
\* predefined references.
PairDocuments ==
    {<<Space, TagA, EndA>>,
     <<TextT, AttA, QuoteVoid>>,
     <<TagA, Mixed, EndA>>,
     <<AttA, RefLt, QuoteEnd>>,
     <<AttA, TextT, QuoteEnd>>,
     <<Ignored, VoidB, TextT>>,
     <<VoidB, RefLt, EndA>>}

\* One read, or two reads of which the second has not run yet; the backends
\* have no table.
InitTwo ==
    /\ parts \in PairDocuments
    /\ table = NoDefs
    /\ Entry
    /\ Loaded
    /\ peer \in {NoRead} \cup {Fresh(d) : d \in PairDocuments}

\* The other read runs.  fast_xml has one await, of the result of the head
\* hook: while a read waits there, or once it has ended, the other read
\* starts or goes on.  A hook of the read that runs (text, otag or ctag,
\* called by the step before) calls fast_xml: the second read runs from its
\* entry to its await, after which the first goes on.  The statements that
\* follow a hook call within a step use no RegExp.
Switch ==
    /\ peer # NoRead
    /\ peer.pc \notin {"done", "thrown"}
    /\ \/ pc = "head"
       \/ pc \in {"done", "thrown"}
       \/ /\ pc \in {"top", "attlist"}
          /\ Len(hooks) > 1
          /\ peer.pc = "start"
    /\ peer' = Running
    /\ Resume(peer)
    /\ UNCHANGED <<table, first, lastIndex>>

\* The steps of the reads of these documents, which are read to their end
\* with an empty stack, and the change of the read that runs.
NextTwo ==
    \/ Prolog
    \/ HeadSettled
    \/ TopTest
    \/ TopEndTag
    \/ TopCData
    \/ TopStartTag
    \/ TopIgnored
    \/ TopRef
    \/ TopText
    \/ TopAbort
    \/ TopExit
    \/ AttTest
    \/ AttEnd
    \/ AttHead
    \/ AttSpace
    \/ LitTest
    \/ LitEnd
    \/ LitRef
    \/ LitText
    \/ Switch

SpecTwo == InitTwo /\ [][NextTwo]_vars

(***************************************************************************)
(* Properties of the read                                                  *)
(***************************************************************************)

\* C1: fast_xml never throws and the promise it returns never rejects: no
\* read, of any document under any entity table, reaches the position where
\* an exception has left the function.
C1_NeverRejects == pc # "thrown"

\* C2: every read terminates with the loop condition false: a read that has
\* ended, and takes no further step, has active = FALSE.
C2_EndsInactive == Ended => ~active

(***************************************************************************)
(* Documents by their constructs, and the hook calls expected of them      *)
(***************************************************************************)

\* a is a prefix of b.
IsPrefix(a, b) == Len(a) <= Len(b) /\ a = SubSeq(b, 1, Len(a))

\* The hook calls other than head, and the otag and ctag calls.
Calls(h) == SelectSeq(h, LAMBDA c : c.hook # "head")
TagCalls(h) == SelectSeq(h, LAMBDA c : c.hook \in {"otag", "ctag"})

\* The pieces that begin a tag.
Markup == {TagA, EndA, VoidB, AttA, OpenEnd, SqRef, OpenA, AttS}

\* The characters a piece of character data, a comment or a processing
\* instruction gives to the text.
Content(p) ==
    CASE p = Ignored -> <<>>
      [] p = Mixed -> <<"t", "d">>
      [] p = RefLt -> <<"<">>
      [] OTHER -> p

RECURSIVE Contents(_)
Contents(ps) ==
    IF ps = <<>> THEN <<>> ELSE Content(Head(ps)) \o Contents(Tail(ps))

\* The text before the first tag.
RECURSIVE Leading(_)
Leading(ps) ==
    IF ps = <<>> \/ Head(ps) \in Markup THEN <<>>
    ELSE Head(ps) \o Leading(Tail(ps))

\* Whole constructs and no reference to a named entity.
Plain(ps) ==
    /\ Regular(ps, FALSE)
    /\ \A i \in DOMAIN ps : ps[i] \notin {RefE, RefF, SqRef}

\* Every end tag closes an open tag and no tag is left open.
RECURSIVE Balanced(_, _)
Balanced(ps, depth) ==
    IF ps = <<>> THEN depth = 0
    ELSE LET p == Head(ps)
             d == CASE p \in {TagA, AttA} -> depth + 1
                    [] p \in {EndA, QuoteVoid} -> depth - 1
                    [] OTHER -> depth
         IN  d >= 0 /\ Balanced(Tail(ps), d)

\* The place of the first piece of ps that closes an attribute value.
ValueEnd(ps) ==
    CHOOSE k \in DOMAIN ps :
        /\ ps[k] \in {QuoteEnd, QuoteVoid}
        /\ \A j \in 1 .. k - 1 : ps[j] \notin {QuoteEnd, QuoteVoid}

Deliver(t) == IF t = <<>> THEN <<>> ELSE <<TextHook(t)>>

\* The calls after head expected of a plain document: every tag gives its
\* otag and ctag; the text and CDATA content between two tags is delivered
\* once, before the tag that ends it, when it is not empty; the text before
\* the first tag belongs to the prolog.  The text after the last tag is
\* delivered when atEnd holds and dropped otherwise.
RECURSIVE Expected(_, _, _, _)
Expected(ps, started, txt, atEnd) ==
    IF ps = <<>> THEN (IF atEnd THEN Deliver(txt) ELSE <<>>)
    ELSE LET p == Head(ps)
             rest == Tail(ps)
         IN  CASE p = TagA ->
                    Deliver(txt) \o <<OtagHook(<<"a">>, <<>>)>>
                    \o Expected(rest, TRUE, <<>>, atEnd)
               [] p = EndA ->
                    Deliver(txt) \o <<CtagHook(<<"a">>)>>
                    \o Expected(rest, TRUE, <<>>, atEnd)
               [] p = VoidB ->
                    Deliver(txt)
                    \o <<OtagHook(<<"b">>, <<>>), CtagHook(<<"b">>)>>
                    \o Expected(rest, TRUE, <<>>, atEnd)
               [] p = AttA ->
                    LET k == ValueEnd(rest)
                        val == Contents(SubSeq(rest, 1, k - 1))
                    IN  Deliver(txt)
                        \o <<OtagHook(<<"a">>, <<<<<<"b">>, val>>>>)>>
                        \o (IF rest[k] = QuoteVoid
                            THEN <<CtagHook(<<"a">>)>> ELSE <<>>)
                        \o Expected(SubSeq(rest, k + 1, Len(rest)), TRUE,
                                    <<>>, atEnd)
               [] OTHER ->
                    Expected(rest, started,
                             IF started THEN txt \o Content(p) ELSE <<>>,
                             atEnd)

(***************************************************************************)
(* C5: the head hook                                                       *)
(***************************************************************************)

\* C5: the head hook is called exactly once, with the text before the first
\* tag (empty when the document begins with a tag), and no otag, ctag or
\* text call is made before the call of head and the settlement of its
\* promise.
C5_HeadOnceFirst ==
    /\ pc = "start" => hooks = <<>>
    /\ pc = "head" => hooks = <<HeadHook(Leading(parts))>>
    /\ pc \notin {"start", "head"} =>
          /\ Len(hooks) >= 1
          /\ hooks[1] = HeadHook(Leading(parts))
          /\ \A i \in 2 .. Len(hooks) : hooks[i].hook # "head"

\* A read that has returned after a prolog that is not empty and calls of
\* other hooks.
C5_Witness ==
    /\ pc = "done"
    /\ Len(hooks) >= 3
    /\ hooks[1].arg # <<>>

(***************************************************************************)
(* C6: merged text                                                         *)
(***************************************************************************)

\* The calls with the names and attribute maps of the tags left out.
Merged(h) ==
    [i \in DOMAIN h |-> IF h[i].hook = "text" THEN h[i] ELSE CtagHook(<<>>)]

\* C6 as stated: in a plain document every maximal run of text, CDATA,
\* comments, processing instructions and predefined references after the
\* prolog, the run after the last tag included, is delivered by exactly one
\* text call, made when the text and CDATA content of the run is not empty.
C6_EveryRunDelivered ==
    (Plain(parts) /\ pc = "done") =>
        Merged(Calls(hooks)) = Merged(Expected(parts, FALSE, <<>>, TRUE))

\* C6, amended: the same for the runs that a start or end tag ends; the run
\* after the last tag is not delivered.
C6_RunBeforeTagDelivered ==
    (Plain(parts) /\ pc # "start") =>
        /\ IsPrefix(Merged(Calls(hooks)),
                    Merged(Expected(parts, FALSE, <<>>, FALSE)))
        /\ pc = "done" =>
              Merged(Calls(hooks)) = Merged(Expected(parts, FALSE, <<>>, FALSE))

\* A read that has returned after the delivery of a run made of text, a
\* comment and a CDATA section.
C6_Witness ==
    /\ pc = "done"
    /\ Plain(parts)
    /\ \E i \in DOMAIN parts : parts[i] = Mixed
    /\ \E i \in DOMAIN hooks : hooks[i] = TextHook(<<"t", "d">>)

(***************************************************************************)
(* C7: text calls                                                          *)
(***************************************************************************)

\* C7: no text call has the empty string as its argument, and between two
\* text calls there is an otag or ctag call.
C7_TextNonEmptySeparated ==
    \A i \in DOMAIN hooks :
        hooks[i].hook = "text" =>
            /\ hooks[i].arg # <<>>
            /\ \A j \in DOMAIN hooks :
                  (i < j /\ hooks[j].hook = "text") =>
                      \E k \in i + 1 .. j - 1 : hooks[k].hook \in {"otag", "ctag"}

\* Two text calls have been made.
C7_Witness ==
    \E i, j \in DOMAIN hooks :
        i < j /\ hooks[i].hook = "text" /\ hooks[j].hook = "text"

(***************************************************************************)
(* C8: what follows the last tag                                           *)
(***************************************************************************)

\* The number of pieces up to the last piece that is not white space, text,
\* a comment or a processing instruction.
LastTag(ps) ==
    LET other == {i \in DOMAIN ps : ps[i] \notin {TextT, Space, Ignored}}
    IN  IF other = {} THEN 0
        ELSE CHOOSE i \in other : \A j \in other : j <= i

\* The document ends with a tag followed by white space, text, comments or
\* processing instructions.
HasTail(ps) ==
    /\ LastTag(ps) \in 1 .. Len(ps) - 1
    /\ ps[LastTag(ps)] \in {TagA, EndA, VoidB, QuoteEnd, QuoteVoid, SqRef}

\* The offset of the end of the last tag.
LastTagEnd(ps) == Len(Flatten(SubSeq(ps, 1, LastTag(ps))))

\* C8: once the read is past the end of the last tag of the document, no
\* hook is called: what follows the last tag is not delivered.
C8_TailSilent ==
    [][(HasTail(parts) /\ Len(stack) = 0 /\ pos > LastTagEnd(parts))
          => hooks' = hooks]_vars

\* A read that has returned with text after the last tag still in the buffer.
C8_Witness ==
    /\ pc = "done"
    /\ HasTail(parts)
    /\ pos > LastTagEnd(parts)
    /\ text # <<>>
    /\ Len(hooks) >= 2

(***************************************************************************)
(* C9: the end of an attribute list                                        *)
(***************************************************************************)

\* C9: when the read leaves an attribute list, it has called otag with the
\* name and the attribute map of the tag and, when the two characters that
\* end the list are />, ctag with the same name right after it; when the
\* list ends with > alone, otag only.
C9_VoidTag ==
    [][(pc = "attlist_tok" /\ pc' = "top") =>
          hooks' = hooks \o
              (IF Slice(src, Max(pos - 2, 0), pos) = <<"/", ">">>
               THEN <<OtagHook(tag, attrs), CtagHook(tag)>>
               ELSE <<OtagHook(tag, attrs)>>)]_vars

\* The read has just left the attribute list of a void tag with an attribute.
C9_Witness ==
    /\ pc = "top"
    /\ tok = <<"/", ">">>
    /\ Len(hooks) >= 3
    /\ hooks[Len(hooks)] = CtagHook(tag)
    /\ hooks[Len(hooks) - 1] = OtagHook(tag, attrs)
    /\ attrs # <<>>

(***************************************************************************)
(* C10: nesting                                                            *)
(***************************************************************************)

\* Every ctag call of cs has the name of the last otag call whose tag is
\* still open; open is the sequence of the names of the open tags.
RECURSIVE Nested(_, _)
Nested(cs, open) ==
    IF cs = <<>> THEN TRUE
    ELSE LET c == Head(cs)
         IN  IF c.hook = "otag"
             THEN Nested(Tail(cs), Append(open, c.arg))
             ELSE /\ open # <<>>
                  /\ open[Len(open)] = c.arg
                  /\ Nested(Tail(cs), SubSeq(open, 1, Len(open) - 1))

\* A document of whole constructs, without references, whose tags match.
WellFormed(ps) ==
    /\ Plain(ps)
    /\ \A i \in DOMAIN ps : ps[i] # RefLt
    /\ Balanced(ps, 0)

\* C10: in a document without references and malformed constructs the otag
\* and ctag calls are well nested, and they are the calls of the tags of the
\* document, in the order of the document.
C10_WellNested ==
    (WellFormed(parts) /\ pc # "start") =>
        /\ Nested(TagCalls(hooks), <<>>)
        /\ IsPrefix(TagCalls(hooks), TagCalls(Expected(parts, FALSE, <<>>, FALSE)))
        /\ pc = "done" =>
              TagCalls(hooks) = TagCalls(Expected(parts, FALSE, <<>>, FALSE))

\* A read that has returned after a tag was opened and closed inside another.
C10_Witness ==
    /\ pc = "done"
    /\ WellFormed(parts)
    /\ \E i \in DOMAIN hooks :
          /\ i + 3 <= Len(hooks)
          /\ hooks[i].hook = "otag"
          /\ hooks[i + 1].hook = "otag"
          /\ hooks[i + 1].arg # hooks[i].arg
          /\ hooks[i + 2] = CtagHook(hooks[i + 1].arg)
          /\ hooks[i + 3] = CtagHook(hooks[i].arg)

(***************************************************************************)
(* C4: references in attribute values                                      *)
(***************************************************************************)

\* The characters the text s gives to an attribute value under the table d:
\* a reference to a predefined entity gives its character, a reference to an
\* entity of the table that is not pending gives what its replacement text
\* gives, any other reference gives nothing and every other character gives
\* itself.  An & that begins no reference gives itself when whole holds, and
\* ends the text it stands in otherwise.
RECURSIVE Literal(_, _, _, _)
Literal(s, d, pending, whole) ==
    IF s = <<>> THEN <<>>
    ELSE IF s[1] # "&" THEN <<s[1]>> \o Literal(Tail(s), d, pending, whole)
    ELSE LET semi == IndexOf(s, ";", 1)
         IN  IF semi < 2
             THEN IF whole
                  THEN <<"&">> \o Literal(Tail(s), d, pending, whole)
                  ELSE <<>>
             ELSE LET name == Slice(s, 1, semi)
                      this == IF name \in DOMAIN PREDEFINED
                              THEN <<PREDEFINED[name]>>
                              ELSE IF name \in DOMAIN d /\ name \notin pending
                              THEN Literal(d[name], d, pending \cup {name}, whole)
                              ELSE <<>>
                  IN  this \o Literal(SliceFrom(s, semi + 1), d, pending, whole)

\* The value written between the quotes by the pieces ps.
RECURSIVE Value(_, _)
Value(ps, whole) ==
    IF ps = <<>> THEN <<>>
    ELSE (IF Head(ps) \in {RefE, RefF, RefLt}
          THEN Literal(Head(ps), defs, {}, whole)
          ELSE Head(ps))
         \o Value(Tail(ps), whole)

\* The document is one tag with one attribute: between double quotes a
\* value without a double quote and with at least one reference to an entity
\* of the table, or between single quotes a reference to such an entity.
AttrDoc(ps) ==
    \/ /\ Len(ps) >= 3
       /\ ps[1] = AttA
       /\ ps[Len(ps)] \in {QuoteEnd, QuoteVoid}
       /\ \A i \in 2 .. Len(ps) - 1 :
             ps[i] \notin {AttA, QuoteEnd, QuoteVoid, SqRef}
       /\ \E i \in 2 .. Len(ps) - 1 : Defined(ps[i], table)
    \/ ps = <<SqRef>> /\ Defined(RefE, table)

\* The calls expected of such a document.
AttrCalls(whole) ==
    IF parts = <<SqRef>>
    THEN <<HeadHook(<<>>),
           OtagHook(<<"a">>, <<<<<<"c">>, Value(<<RefE>>, whole)>>>>),
           CtagHook(<<"a">>)>>
    ELSE <<HeadHook(<<>>),
           OtagHook(<<"a">>,
                    <<<<<<"b">>,
                        Value(SubSeq(parts, 2, Len(parts) - 1), whole)>>>>)>>
         \o (IF parts[Len(parts)] = QuoteVoid
             THEN <<CtagHook(<<"a">>)>> ELSE <<>>)

\* C4 as stated: the whole replacement text of an entity referenced in a
\* quoted attribute value is appended to the value as literal characters,
\* nested references expanded; no tag or quote of it calls a hook or ends
\* the value.
C4_WholeReplacement ==
    (AttrDoc(parts) /\ Ended) => hooks = AttrCalls(TRUE)

\* C4, amended: the same, but a replacement text is appended only up to its
\* first & that begins no reference.
C4_ReplacementUpToBareAmp ==
    (AttrDoc(parts) /\ pc # "start") =>
        /\ IsPrefix(hooks, AttrCalls(FALSE))
        /\ Ended => hooks = AttrCalls(FALSE)

\* A read that has ended after a replacement text gave a quote and a left
\* angle to the value of the attribute.
C4_Witness ==
    /\ Ended
    /\ AttrDoc(parts)
    /\ Len(hooks) >= 2
    /\ hooks[2].hook = "otag"
    /\ hooks[2].attrs # <<>>
    /\ LET v == hooks[2].attrs[1][2]
       IN  /\ \E i \in DOMAIN v : v[i] = "\""
           /\ \E i \in DOMAIN v : v[i] = "<"

(***************************************************************************)
(* C3: reparsing                                                           *)
(***************************************************************************)

\* The names of the entities of the table that the replacement text of n
\* refers to, and those it leads to.
Refs(tab, n) ==
    {RefName(tab[n][i]) : i \in {j \in DOMAIN tab[n] : Defined(tab[n][j], tab)}}

RECURSIVE Closure(_, _)
Closure(tab, S) ==
    LET T == S \cup UNION {Refs(tab, n) : n \in S}
    IN  IF T = S THEN S ELSE Closure(tab, T)

Reach(tab, n) == Closure(tab, Refs(tab, n))

\* The reference replaced for the second read stood at the top level of the
\* first document.
AtTopLevel == TopLevel(first.parts, first.at)

\* The replacement text of the entity, and of every entity it leads to, is
\* made of whole constructs, and it does not lead back to the entity.
Reparsable ==
    LET name == RefName(first.parts[first.at])
    IN  /\ name \notin Reach(table, name)
        /\ \A n \in Reach(table, name) \cup {name} : Regular(table[n], FALSE)

\* C3 as stated: a document with a reference to a defined entity at its top
\* level gives the same otag, ctag and text calls as the document with the
\* replacement text written in place of the reference.
C3_ReparseAny ==
    (first # NoRun /\ Ended /\ AtTopLevel) =>
        Calls(hooks) = Calls(first.hooks)

\* C3, amended: the same, for an entity whose replacement text, and that of
\* every entity it leads to, is made of whole constructs and does not lead
\* back to the entity.
C3_ReparseWhole ==
    (first # NoRun /\ Ended /\ AtTopLevel /\ Reparsable) =>
        Calls(hooks) = Calls(first.hooks)

\* Both reads have ended, and the second has made the calls of a tag that
\* the replacement text of a nested reference holds.
C3_Witness ==
    /\ first # NoRun
    /\ Ended
    /\ AtTopLevel
    /\ Reparsable
    /\ first.parts[first.at] = RefE
    /\ \E i \in DOMAIN hooks : hooks[i] = OtagHook(<<"b">>, <<>>)
    /\ \E i \in DOMAIN hooks : hooks[i] = TextHook(<<"\"">>)

(***************************************************************************)
(* C11: numeric references                                                 *)
(***************************************************************************)

\* A reference has been read, at the top level or in an attribute value, and
\* is about to be expanded.
AtRef == pc \in {"top_tok", "value_tok"} /\ found /\ tok # end /\ IsRef(tok)

\* n is a Unicode scalar value; n is a code point.
Scalar(n) == (n >= 0 /\ n <= 55295) \/ (n >= 57344 /\ n <= 1114111)
CodePoint(n) == n >= 0 /\ n <= 1114111

\* C11 as stated: a numeric reference appends the character of the number
\* read in its body to the text buffer when that number is a Unicode scalar
\* value, and the read goes on; for any other body (a number out of range,
\* a surrogate, a negative number, no number) nothing is appended and the
\* read is deactivated.
C11_ScalarOnly ==
    [][(AtRef /\ tok \in NumRefs) =>
          LET n == NumValue(tok)
          IN  IF ~n.nan /\ Scalar(n.v)
              THEN text' = text \o <<FromCodePoint(n.v)>> /\ active'
              ELSE text' = text /\ ~active']_vars

\* C11, amended: the same with the code points 0 .. 0x10FFFF, the
\* surrogates D800 .. DFFF included, in place of the scalar values.
C11_CodePointOnly ==
    [][(AtRef /\ tok \in NumRefs) =>
          LET n == NumValue(tok)
          IN  IF ~n.nan /\ CodePoint(n.v)
              THEN text' = text \o <<FromCodePoint(n.v)>> /\ active'
              ELSE text' = text /\ ~active']_vars

\* The reference &#xD800; has been expanded: the surrogate is in the text
\* buffer and the read goes on.
C11_Witness ==
    /\ tok = NumRef(<<"x", "D", "8", "0", "0">>)
    /\ pc \in {"top", "value"}
    /\ active
    /\ text # <<>>
    /\ text[Len(text)] = FromCodePoint(55296)

(***************************************************************************)
(* C12: deactivation                                                       *)
(***************************************************************************)

\* The document is <a b="&#...;"><b/> and its numeric reference has a body
\* in which no code point is read.
InvalidInValue ==
    /\ Len(parts) = 4
    /\ parts[1] = AttA
    /\ parts[2] \in NumRefs
    /\ LET n == NumValue(parts[2]) IN n.nan \/ ~CodePoint(n.v)

\* C12: once active is false it stays false and no hook is called; and in
\* the read of a document with an out-of-range numeric reference in an
\* attribute value no hook other than head is ever called: the otag of the
\* tag of that attribute never fires.
C12_Deactivated ==
    [][/\ ~active => (~active' /\ hooks' = hooks)
       /\ InvalidInValue =>
             \A i \in DOMAIN hooks' : hooks'[i].hook = "head"]_vars

\* The read of such a document has returned from the literal loop through
\* the attribute list loop and the top-level loop, with head as its only
\* call.
C12_Witness ==
    /\ pc = "done"
    /\ ~active
    /\ InvalidInValue
    /\ attr = <<"b">>
    /\ hooks = <<HeadHook(<<>>)>>

(***************************************************************************)
(* C13: predefined names                                                   *)
(***************************************************************************)

\* The character each predefined name stands for.
PredefinedChar(name) ==
    CASE name = <<"l", "t">> -> "<"
      [] name = <<"g", "t">> -> ">"
      [] name = <<"a", "m", "p">> -> "&"
      [] name = <<"a", "p", "o", "s">> -> "'"
      [] name = <<"q", "u", "o", "t">> -> "\""

\* C13: the expansion of a reference to lt, gt, amp, apos or quot, at the
\* top level or in an attribute value, appends <, >, &, ' or " to the text
\* buffer and pushes no frame, whatever the table holds for the name; the
\* expansion of a numeric reference pushes no frame either.
C13_PredefinedFixed ==
    [][AtRef =>
          LET name == Slice(tok, 1, -1)
          IN  /\ name \in PredefinedNames =>
                    /\ text' = text \o <<PredefinedChar(name)>>
                    /\ UNCHANGED <<src, pos, lit, end, stack, names, active>>
              /\ CharAt(name, 0) = <<"#">> =>
                    UNCHANGED <<src, pos, lit, end, stack, names>>]_vars

\* Under a table with an entry for quot, the reference &quot; has given a
\* double quote to the value of an attribute written between double quotes.
C13_Witness ==
    /\ pc = "value"
    /\ tok = NamedRef(<<"q", "u", "o", "t">>)
    /\ <<"q", "u", "o", "t">> \in DOMAIN table
    /\ end = <<"\"">>
    /\ text = <<"\"">>
    /\ stack = <<>>

(***************************************************************************)
(* C14: references without definition                                      *)
(***************************************************************************)

\* The name is not numeric, not predefined and not a key of the table.
Unknown(name) ==
    /\ CharAt(name, 0) # <<"#">>
    /\ name \notin PredefinedNames
    /\ name \notin DOMAIN table

\* C14: when the reference just read has a name that is not predefined and
\* that the table does not define (or there is no table), the position is
\* right after the reference, and its expansion changes none of src, pos,
\* lit, end, stack, names, text and active, calls no hook, and leaves the
\* read at the head of the loop in which the reference was read.
C14_UnknownSkipped ==
    [][(AtRef /\ Unknown(Slice(tok, 1, -1))) =>
          /\ Slice(src, pos - Len(tok), pos) = tok
          /\ UNCHANGED <<src, pos, lit, end, stack, names, text, active, hooks>>
          /\ pc' = (IF pc = "top_tok" THEN "top" ELSE "value")]_vars

\* In an attribute value, inside the replacement text of e, the reference
\* &g; has been skipped under a table that defines e and not g.
C14_Witness ==
    /\ pc = "value"
    /\ tok = RefG
    /\ table = ShadowDefs
    /\ names = <<<<"e">>>>
    /\ lit = "RX_ATTR"
    /\ text = <<>>
    /\ active

(***************************************************************************)
(* C15: attribute lists                                                    *)
(***************************************************************************)

\* The attributes of a document that is one tag, in the order of the
\* document.
AttrsOf(ps) == [i \in 1 .. Len(ps) - 3 |-> AttrOf(ps[i + 1])]

\* No name occurs twice.
DistinctNames(as) ==
    \A i, j \in DOMAIN as : as[i].name = as[j].name => i = j

\* The calls expected of such a document: head with the empty prolog, otag
\* with the name a and the map of the attributes, and ctag after />.
AttrListCalls(ps) ==
    <<HeadHook(<<>>),
      OtagHook(<<"a">>,
               [i \in DOMAIN AttrsOf(ps) |->
                   <<AttrsOf(ps)[i].name, AttrsOf(ps)[i].value>>])>>
    \o (IF ps[Len(ps)] = <<"/", ">">> THEN <<CtagHook(<<"a">>)>> ELSE <<>>)

\* C15: the read of a tag whose attributes are written name="..." or
\* name='...', with distinct names, calls otag with the name of the tag and
\* the map of the names and values in the order of the document (and ctag
\* when the tag ends with />), the value being the content between the
\* quotes with its references expanded, a quote of the other kind included;
\* the white space between the attributes and before the end of the tag
\* gives nothing.
C15_AttributeMap ==
    (parts \in AttrDocuments /\ DistinctNames(AttrsOf(parts)) /\ pc # "start")
        => /\ IsPrefix(hooks, AttrListCalls(parts))
           /\ pc = "done" => hooks = AttrListCalls(parts)

\* The read of a void tag with two attributes, the second between single
\* quotes around a double quote, has returned after otag and ctag.
C15_Witness ==
    /\ pc = "done"
    /\ parts \in AttrDocuments
    /\ Len(hooks) = 3
    /\ hooks[3] = CtagHook(<<"a">>)
    /\ Len(hooks[2].attrs) = 2
    /\ hooks[2].attrs[2] = <<<<"b">>, <<"\"">>>>

(***************************************************************************)
(* C16: the prolog                                                         *)
(***************************************************************************)

\* C16: the string given to head is the prefix of the document made of the
\* byte order mark, the white space, the comments, the processing
\* instructions and the declarations before the first tag, a > between
\* quotes or in a nested <...> not ending a declaration; and the first token
\* read after the prolog is the start of the first tag.
C16_HeadIsProlog ==
    /\ pc # "start" => hooks[1] = HeadHook(Leading(parts))
    /\ pc = "head" => pos = Len(Leading(parts))
    /\ (pc = "top_tok" /\ Len(hooks) = 1) =>
          found /\ tok \in {<<"<", "a">>, <<"<", "b">>}

(***************************************************************************)
(* C17: the loop that pops a snapshot                                      *)
(***************************************************************************)

\* C17: a snapshot is popped by the loop whose reference pushed it: every
\* step that shortens the stack is a step of the loop recorded for the top
\* snapshot, so the source after a top-level reference is never resumed by
\* the literal loop.
C17_PoppedByOwner ==
    [][Len(stack') < Len(stack) => owner[Len(owner)] = Loop]_vars

(***************************************************************************)
(* C18: the two stacks                                                     *)
(***************************************************************************)

\* C18: in every state the snapshot stack and the name stack have the same
\* length.
C18_SameLength == Len(stack) = Len(names)

\* A snapshot has just been popped and another one is left: a reference
\* in a replacement text had been expanded, and its text is exhausted.
C18_Witness ==
    /\ pc \in {"top", "value"}
    /\ active
    /\ ~found
    /\ Len(stack) = 1
    /\ Len(names) = 1
    /\ pos > 0

(***************************************************************************)
(* C19: the name stack                                                     *)
(***************************************************************************)

\* C19: in every state the names on the name stack are pairwise distinct
\* keys of the table, so the stack is never deeper than the table has keys.
C19_DistinctNames ==
    /\ \A i, j \in DOMAIN names : i # j => names[i] # names[j]
    /\ \A i \in DOMAIN names : names[i] \in DOMAIN defs
    /\ Len(stack) <= Cardinality(DOMAIN defs)

\* Every key of the table is on the name stack and the token read is a
\* reference to one of them.
C19_Witness ==
    /\ pc \in {"top_tok", "value_tok"}
    /\ found
    /\ IsRef(tok)
    /\ Includes(names, Slice(tok, 1, -1))
    /\ Len(names) = Cardinality(DOMAIN defs)

(***************************************************************************)
(* C20: what a pop restores                                                *)
(***************************************************************************)

\* The closing quote of a quoted grammar.
QuoteOf(l) == IF l = "DQ_ATTR" THEN <<"\"">> ELSE <<"'">>

\* C20: a push saves the source, the position, the grammar and the
\* delimiter of that moment on top of the stack, no step alters a saved
\* snapshot, and a pop makes the top snapshot the current four. For a
\* reference read in a quoted attribute value the read is then again in
\* the literal loop, just after the ; of that reference, with the quoted
\* grammar and its quote as delimiter.
C20_PopRestores ==
    [][pc' # "start" =>
        /\ \A i \in 1 .. Min(Len(stack), Len(stack')) : stack'[i] = stack[i]
        /\ Len(stack') > Len(stack) =>
              /\ Len(stack') = Len(stack) + 1
              /\ stack'[Len(stack')] = <<src, pos, lit, end>>
        /\ Len(stack') < Len(stack) =>
              LET frame == stack[Len(stack)]
                  name == names[Len(names)]
              IN  /\ Len(stack') = Len(stack) - 1
                  /\ <<src', pos', lit', end'>> = frame
                  /\ (owner[Len(owner)] = "value"
                        /\ frame[3] \in {"DQ_ATTR", "SQ_ATTR"}) =>
                        /\ pc' = "value"
                        /\ end' = QuoteOf(lit')
                        /\ Slice(src', pos' - Len(name) - 2, pos')
                              = <<"&">> \o name \o <<";">>]_vars

\* The replacement of a reference read in a quoted attribute value held a
\* quote of that kind and is exhausted: the snapshot has just been popped.
C20_Witness ==
    /\ pc = "value"
    /\ active
    /\ ~found
    /\ stack = <<>>
    /\ lit \in {"DQ_ATTR", "SQ_ATTR"}
    /\ src = doc
    /\ pos > 0
    /\ CharAt(src, pos - 1) = <<";">>
    /\ \E i \in 1 .. Len(text) : <<text[i]>> = end

(***************************************************************************)
(* C21: the end of a replacement text                                      *)
(***************************************************************************)

\* C21: when the top-level or the literal expression matches nothing and
\* the stack is not empty, one snapshot is popped and the loop goes on with
\* active unchanged and no hook called; when the stack is empty the read is
\* deactivated. So a failed test deactivates the read only on an empty
\* stack.
C21_ExhaustionPops ==
    [][(pc \in {"top_tok", "value_tok"} /\ ~found) =>
         IF stack # <<>>
         THEN /\ stack' = SubSeq(stack, 1, Len(stack) - 1)
              /\ names' = SubSeq(names, 1, Len(names) - 1)
              /\ active' = active
              /\ active
              /\ hooks' = hooks
              /\ text' = text
              /\ pc' = (IF pc = "top_tok" THEN "top" ELSE "value")
         ELSE /\ ~active'
              /\ stack' = stack]_vars

\* A replacement text referenced at top level is exhausted and the document
\* goes on after the reference.
C21_Witness ==
    /\ pc = "top"
    /\ active
    /\ ~found
    /\ stack = <<>>
    /\ src = doc
    /\ pos > 0
    /\ pos < Len(src)
    /\ Len(hooks) > 1

(***************************************************************************)
(* C22: the attribute list that does not end                               *)
(***************************************************************************)

\* C22: an otag call is made only by the step that dispatches the token >
\* or /> of the attribute list, for the tag being read; a failed test of
\* the attribute list expression deactivates the read and pops nothing,
\* whatever the stack holds; and nothing is called once the read is
\* deactivated, so the tag being read is never reported.
C22_OtagAtTerminator ==
    [][/\ (\E i \in Len(hooks) + 1 .. Len(hooks') : hooks'[i].hook = "otag")
          => /\ pc = "attlist_tok"
             /\ found
             /\ tok \in {<<">">>, <<"/", ">">>}
             /\ hooks'[Len(hooks) + 1] = OtagHook(tag, attrs)
       /\ (pc = "attlist_tok" /\ ~found)
          => /\ ~active'
             /\ stack' = stack
             /\ names' = names
             /\ hooks' = hooks
       /\ ~active => hooks' = hooks]_vars

\* A replacement text has ended inside an attribute list: the read is
\* deactivated with its snapshot still on the stack.
C22_Witness ==
    /\ pc = "attlist"
    /\ ~active
    /\ ~found
    /\ stack # <<>>
    /\ tag # <<>>
    /\ \A i \in DOMAIN hooks : hooks[i].hook # "otag"

(***************************************************************************)
(* C23: end tags                                                           *)
(***************************************************************************)

\* C23: at a token </name the text buffer, when not empty, is given to the
\* text hook and emptied; then, if a > lies at or after the position, ctag
\* is called with the name and the position is just after the first such
\* >; if none does, nothing more is called and the read is deactivated.
C23_EndTag ==
    [][(pc = "top_tok" /\ found /\ Len(tok) >= 2
           /\ tok[1] = "<" /\ tok[2] = "/") =>
         LET name == SubSeq(tok, 3, Len(tok))
             delivered == IF text # <<>> THEN <<TextHook(text)>> ELSE <<>>
         IN  /\ text' = <<>>
             /\ src' = src
             /\ IF \E i \in pos + 1 .. Len(src) : src[i] = ">"
                THEN /\ hooks' = hooks \o delivered \o <<CtagHook(name)>>
                     /\ pos' > pos
                     /\ src[pos'] = ">"
                     /\ \A i \in pos + 1 .. pos' - 1 : src[i] # ">"
                     /\ active' = active
                ELSE /\ hooks' = hooks \o delivered
                     /\ ~active']_vars

\* An end tag has been read whose > does not follow the name at once: ctag
\* has been called and the position is after that >.
C23_Witness ==
    /\ pc = "top"
    /\ active
    /\ found
    /\ IsEndTag(tok)
    /\ hooks[Len(hooks)] = CtagHook(SliceFrom(tok, 2))
    /\ CharAt(src, pos - 1) = <<">">>
    /\ Slice(src, pos - 1 - Len(tok), pos - 1) # tok

(***************************************************************************)
(* C24: two reads                                                          *)
(***************************************************************************)

\* The hook calls of the read of a plain document on its own.
Solo(ps) == <<HeadHook(Leading(ps))>> \o Expected(ps, FALSE, <<>>, FALSE)

\* The read with the variables r has made calls of the read of its
\* document on its own, all of them when it has returned.
AsAlone(r) ==
    /\ IsPrefix(r.hooks, Solo(r.parts))
    /\ r.pc \in {"done", "thrown"} => r.pc = "done" /\ r.hooks = Solo(r.parts)

\* C24: a read makes the hook calls it makes on its own, whether it runs
\* alone or with a second read that runs while it awaits the head hook,
\* after it has ended, or from within one of its hooks; so does the second
\* read.
C24_Independent ==
    /\ AsAlone(Running)
    /\ peer # NoRead => AsAlone(peer)

\* Both reads have returned; the one that began first ended last, and the
\* two prologs have different lengths.
C24_Witness ==
    /\ peer # NoRead
    /\ pc = "done"
    /\ peer.pc = "done"
    /\ Len(hooks) >= 3
    /\ Len(peer.hooks) >= 3
    /\ lastIndex["PROLOG"] = Len(peer.hooks[1].arg)
    /\ lastIndex["PROLOG"] # Len(hooks[1].arg)

(***************************************************************************)
(* C25: the text buffer in an attribute list                               *)
(***************************************************************************)

\* C25: the text buffer is empty at every step of the attribute list loop
\* of a read that is active; it is empty when an attribute head is
\* dispatched and when the literal loop begins, and empty before and after
\* the otag call made at > or />.  So the value written for an attribute
\* is what its own literal gave, and the text after a tag begins empty.
C25_BufferEmptyInList ==
    [][/\ (pc \in {"attlist", "attlist_tok"} /\ active) => text = <<>>
       /\ (pc = "attlist_tok" /\ found /\ IsAttHead(tok)) => text' = <<>>
       /\ (pc = "attlist_tok" /\ found /\ IsAttEnd(tok))
             => /\ text' = <<>>
                /\ hooks'[Len(hooks) + 1].hook = "otag"]_vars

\* The head of a second attribute is read after a first attribute whose
\* value is not empty.
C25_Witness ==
    /\ pc = "attlist_tok"
    /\ found
    /\ IsAttHead(tok)
    /\ Len(attrs) = 1
    /\ attrs[1][2] # <<>>
    /\ text = <<>>

(***************************************************************************)
(* C26: what a reference token holds                                       *)
(***************************************************************************)

\* A test of the top-level expression or of a literal expression is due at
\* an &.
AtAmp ==
    /\ pc \in {"top", "value"}
    /\ active
    /\ pc = "value" => lit # "undefined"
    /\ pos < Len(src)
    /\ src[pos + 1] = "&"

\* The places of the ; that at least one character separates from the & at
\* the position.
LaterSemis == {j \in pos + 3 .. Len(src) : src[j] = ";"}

\* The token read is the source from the & to the first of these places.
RefToken ==
    LET j == CHOOSE k \in LaterSemis : \A l \in LaterSemis : k <= l
    IN  /\ found'
        /\ pos' = j
        /\ tok' = SubSeq(src, pos + 1, j)

\* Nothing is called at the dispatch of a reference token, and the loop
\* that read it goes on.
RefSilent ==
    (pc \in {"top_tok", "value_tok"} /\ found /\ IsRef(tok)) =>
        /\ hooks' = hooks
        /\ attrs' = attrs
        /\ pc' = (IF pc = "top_tok" THEN "top" ELSE "value")

\* C26 as stated: at an & that at least one character and a later ; follow,
\* the token read is the reference that runs to the first such ;.
C26_AnyCharacter ==
    [][(AtAmp /\ LaterSemis # {}) => RefToken]_vars

\* C26, amended: at an & that a character other than ; and a later ; follow,
\* the token read runs to the first ; after the &, whatever lies between;
\* its dispatch calls no hook and leaves the loop, and so the attribute
\* value, open.
C26_NameWithoutSemi ==
    [][/\ (AtAmp /\ LaterSemis # {} /\ src[pos + 2] # ";") => RefToken
       /\ RefSilent]_vars

\* A reference token that holds the quote of the attribute value it is
\* read in, and the end of a tag, has been dispatched.
C26_Witness ==
    /\ pc = "value"
    /\ active
    /\ found
    /\ IsRef(tok)
    /\ \E i \in DOMAIN tok : <<tok[i]>> = end
    /\ \E i \in DOMAIN tok : tok[i] = ">"
    /\ attrs = <<>>
    /\ Len(hooks) = 1

(***************************************************************************)
(* C27: a name that occurs twice                                           *)
(***************************************************************************)

\* The map expected of the attributes as: one entry for each name, at the
\* place of the first attribute of that name, with the value of the last.
MapOf(as) ==
    LET firsts == SelectSeq([i \in DOMAIN as |-> i],
                            LAMBDA i : \A j \in 1 .. i - 1 :
                                          as[j].name # as[i].name)
        last(n) == CHOOSE i \in DOMAIN as :
                      /\ as[i].name = n
                      /\ \A j \in i + 1 .. Len(as) : as[j].name # n
    IN  [k \in DOMAIN firsts |->
            <<as[firsts[k]].name, as[last(as[firsts[k]].name)].value>>]

\* The calls expected of a tag with attributes.
MapCalls(ps) ==
    <<HeadHook(<<>>), OtagHook(<<"a">>, MapOf(AttrsOf(ps)))>>
    \o (IF ps[Len(ps)] = <<"/", ">">> THEN <<CtagHook(<<"a">>)>> ELSE <<>>)

\* The documents that are one tag with attributes.
TagDocuments == AttrDocuments \cup DupDocuments

\* The calls made so far are calls expected of the tag, all of them when
\* the read has returned.
MapAsExpected ==
    (parts \in TagDocuments /\ pc # "start") =>
        /\ IsPrefix(hooks, MapCalls(parts))
        /\ pc = "done" => hooks = MapCalls(parts)

\* C27: the map given to otag has one entry for each name, in the order of
\* the first occurrences, with the value of the last occurrence; a tag
\* begins with an empty map, a map is written only in the literal loop,
\* and an otag call leaves the attribute list, so that a map is not written
\* after it has been given to otag.
C27_LastValueFirstPlace ==
    [][/\ MapAsExpected
       /\ MapAsExpected'
       /\ attrs' # attrs =>
             \/ pc = "top_tok" /\ attrs' = <<>>
             \/ pc = "value_tok" /\ tok = end
       /\ (\E i \in Len(hooks) + 1 .. Len(hooks') : hooks'[i].hook = "otag")
             => pc' = "top" /\ attrs' = attrs]_vars

\* The read of a tag whose first and third attribute have the same name has
\* returned: the map has the entry of that name before the other one, with
\* the third value.
C27_Witness ==
    /\ pc = "done"
    /\ parts \in DupDocuments
    /\ Len(attrs) = 2
    /\ attrs[1] = <<AttrsOf(parts)[3].name, AttrsOf(parts)[3].value>>
    /\ AttrsOf(parts)[1].value # AttrsOf(parts)[3].value
    /\ hooks[2] = OtagHook(<<"a">>, attrs)

====
